---------------------------- MODULE Spec2Model ----------------------------
(***************************************************************************)
(* A model of the CMS analytics fetch stage (src/cms_data_fetcher.py):     *)
(* the download cache, the region filter, the population match, the        *)
(* column standardization, the aggregates and the run that writes the      *)
(* summary files.                                                          *)
(*                                                                         *)
(* Text is a sequence of one-character strings, so that upper-casing and   *)
(* substring search are computed and not assumed.  A data frame is a       *)
(* record [cols, rows]: cols the sequence of column names, rows a          *)
(* sequence of rows, each a sequence of cells in column order.             *)
(***************************************************************************)
EXTENDS Integers, Sequences, FiniteSets, TLC

VARIABLES
  op,        \* the operation applied last ("init" before any)
  input,     \* the arguments of the function under check, a sequence of frames
  output,    \* what it returned: [raised, df]
  base_dir,  \* self.base_dir, the path data_dir names
  files,     \* the file system below the working directory: path -> content
  results,   \* the results directory: file name -> content
  requests,  \* HTTP requests issued so far
  clock,     \* the wall clock, in seconds
  last,      \* the call of download_file the last step made, if any
  calls      \* operations applied so far

vars == <<op, input, output, base_dir, files, results, requests, clock, last, calls>>

---------------------------------------------------------------------------
(* Text *)

LowerCase == <<"a","b","c","d","e","f","g","h","i","j","k","l","m",
               "n","o","p","q","r","s","t","u","v","w","x","y","z">>
UpperCase == <<"A","B","C","D","E","F","G","H","I","J","K","L","M",
               "N","O","P","Q","R","S","T","U","V","W","X","Y","Z">>

\* str.upper() on one character
UpperChar(c) ==
  IF \E i \in 1..Len(LowerCase) : LowerCase[i] = c
  THEN UpperCase[CHOOSE i \in 1..Len(LowerCase) : LowerCase[i] = c]
  ELSE c

\* str.upper()
Upper(s) == [i \in 1..Len(s) |-> UpperChar(s[i])]

\* the Python test "p in s" on text
Contains(s, p) ==
  \E i \in 0..(Len(s) - Len(p)) : \A j \in 1..Len(p) : s[i + j] = p[j]

\* a regular expression 'a|b|c' of literal alternatives searched in s
ContainsAny(s, alternatives) ==
  \E k \in 1..Len(alternatives) : Contains(s, alternatives[k])

\* a missing text cell: read_csv turns an empty field into NaN, so the empty
\* text never occurs as a value and stands for NaN
NaN == <<>>

\* Series.astype(str) on one cell: NaN becomes the text "nan"
AsTypeStr(c) == IF c = NaN THEN <<"n","a","n">> ELSE c

\* the alternatives of a pattern as re.IGNORECASE compares them
FoldCase(alternatives) == [k \in 1..Len(alternatives) |-> Upper(alternatives[k])]

\* Series.str.contains(pattern, case=False, na=False) on one cell, folded
\* being the case-folded alternatives of the pattern
StrContainsNoCase(c, folded) ==
  /\ c # NaN
  /\ ContainsAny(Upper(c), folded)

\* Series.str.upper().str.contains(pattern, na=False) on one cell
StrUpperContains(c, alternatives) ==
  /\ c # NaN
  /\ ContainsAny(Upper(c), alternatives)

---------------------------------------------------------------------------
(* The fixed lists of CMSDataFetcher *)

\* community_care_practices, lines 27-55 of cms_data_fetcher.py (48 entries)
community_care_practices ==
  << <<"C","O","M","M","U","N","I","T","Y"," ","C","A","R","E">>,
     <<"C","O","M","M","U","N","I","T","Y","C","A","R","E">>,
     <<"C","O","M","M","U","N","I","T","Y"," ","C","A","R","E"," ","P","H","Y","S","I","C","I","A","N","S">>,
     <<"C","C","P">>,
     <<"C","O","M","M","U","N","I","T","Y"," ","C","A","R","E"," ","F","A","M","I","L","Y"," ","M","E","D","I","C","I","N","E">>,
     <<"C","O","M","M","U","N","I","T","Y"," ","C","A","R","E"," ","P","E","D","I","A","T","R","I","C","S">>,
     <<"C","O","M","M","U","N","I","T","Y"," ","C","A","R","E"," ","I","N","T","E","R","N","A","L"," ","M","E","D","I","C","I","N","E">>,
     <<"L","A","T","H","A","M"," ","M","E","D","I","C","A","L"," ","G","R","O","U","P">>,
     <<"C","A","P","I","T","A","L"," ","R","E","G","I","O","N"," ","F","A","M","I","L","Y"," ","H","E","A","L","T","H">>,
     <<"F","A","M","I","L","Y"," ","C","A","R","E"," ","P","H","Y","S","I","C","I","A","N","S">>,
     <<"S","C","H","O","O","L","H","O","U","S","E"," ","R","O","A","D"," ","P","E","D","I","A","T","R","I","C","S">>,
     <<"A","L","B","A","N","Y"," ","F","A","M","I","L","Y"," ","P","R","A","C","T","I","C","E">>,
     <<"C","A","P","I","T","A","L"," ","C","A","R","E">>,
     <<"C","A","P","I","T","A","L","C","A","R","E">>,
     <<"C","A","P","I","T","A","L"," ","C","A","R","E"," ","M","E","D","I","C","A","L"," ","G","R","O","U","P">>,
     <<"C","A","P","I","T","A","L"," ","D","I","S","T","R","I","C","T"," ","I","N","T","E","R","N","A","L"," ","M","E","D","I","C","I","N","E">>,
     <<"C","A","P","I","T","A","L"," ","D","I","S","T","R","I","C","T"," ","R","E","N","A","L">>,
     <<"U","R","O","L","O","G","I","C","A","L"," ","I","N","S","T","I","T","U","T","E"," ","O","F"," ","N","O","R","T","H","E","A","S","T","E","R","N"," ","N","Y">>,
     <<"U","R","O","L","O","G","Y"," ","I","N","S","T","I","T","U","T","E">>,
     <<"A","L","B","A","N","Y"," ","G","A","S","T","R","O","E","N","T","E","R","O","L","O","G","Y">>,
     <<"A","L","B","A","N","Y"," ","G","A","S","T","R","O">>,
     <<"A","L","B","A","N","Y"," ","U","R","O","L","O","G","Y">>,
     <<"A","L","B","A","N","Y"," ","O","B","S","T","E","T","R","I","C","S"," ","&"," ","G","Y","N","E","C","O","L","O","G","Y">>,
     <<"A","L","B","A","N","Y"," ","O","B"," ","G","Y","N">>,
     <<"A","L","B","A","N","Y"," ","O","B","-","G","Y","N">>,
     <<"U","P","S","T","A","T","E"," ","I","N","F","E","C","T","I","O","U","S"," ","D","I","S","E","A","S","E","S">>,
     <<"U","P","S","T","A","T","E"," ","N","E","U","R","O","L","O","G","Y">>,
     <<"N","E","U","R","O","L","O","G","Y"," ","G","R","O","U","P"," ","O","F"," ","U","P","S","T","A","T","E"," ","N","Y">>,
     <<"N","E","U","R","O","L","O","G","Y"," ","G","R","O","U","P">>,
     <<"C","A","P","I","T","A","L"," ","R","E","G","I","O","N"," ","M","I","D","W","I","F","E","R","Y">>,
     <<"C","A","P","I","T","A","L"," ","R","E","G","I","O","N"," ","W","O","M","E","N","'","S"," ","C","A","R","E">>,
     <<"W","O","M","E","N","'","S"," ","C","A","R","E">>,
     <<"W","O","M","E","N","S"," ","C","A","R","E">>,
     <<"C","A","P","I","T","A","L"," ","C","A","R","D","I","O","L","O","G","Y">>,
     <<"C","A","R","D","I","O","L","O","G","Y"," ","A","S","S","O","C","I","A","T","E","S"," ","O","F"," ","S","C","H","E","N","E","C","T","A","D","Y">>,
     <<"C","A","R","D","I","O","L","O","G","Y"," ","A","S","S","O","C","I","A","T","E","S">>,
     <<"A","d","v","a","n","c","e","d"," ","G","a","s","t","r","o","e","n","t","e","r","o","l","o","g","y">>,
     <<"A","l","b","a","n","y"," ","F","a","m","i","l","y"," ","M","e","d","i","c","i","n","e">>,
     <<"B","u","r","n","t"," ","H","i","l","l","s"," ","P","e","d","i","a","t","r","i","c","s"," ","a","n","d"," ","I","n","t","e","r","n","a","l"," ","M","e","d","i","c","i","n","e">>,
     <<"C","a","p","i","t","a","l"," ","H","e","a","l","t","h","c","a","r","e"," ","A","s","s","o","c","i","a","t","e","s">>,
     <<"C","a","p","i","t","a","l"," ","R","e","g","i","o","n"," ","F","a","m","i","l","y"," ","M","e","d","i","c","i","n","e">>,
     <<"C","a","p","i","t","a","l"," ","R","e","g","i","o","n"," ","G","a","s","t","r","o","e","n","t","e","r","o","l","o","g","y">>,
     <<"C","a","p","i","t","a","l"," ","R","e","g","i","o","n"," ","W","o","m","e","n","'","s"," ","C","a","r","e">>,
     <<"C","a","p","i","t","a","l","C","a","r","e"," ","C","h","a","r","l","t","o","n"," ","F","a","m","i","l","y"," ","M","e","d","i","c","i","n","e">>,
     <<"C","a","p","i","t","a","l","C","a","r","e"," ","D","e","v","e","l","o","p","m","e","n","t","a","l"," ","P","e","d","i","a","t","r","i","c","s">>,
     <<"C","a","p","i","t","a","l","C","a","r","e"," ","F","a","m","i","l","y"," ","M","e","d","E","s","t","h","e","t","i","c","s">>,
     <<"C","o","m","m","u","n","i","t","y"," ","C","a","r","e"," ","P","h","y","s","i","c","i","a","n","s">>,
     <<"C","o","m","m","u","n","i","t","y","C","a","r","e","P","C","P">> >>

\* upstate_ny_counties, lines 58-62 of cms_data_fetcher.py (12 entries)
upstate_ny_counties ==
  << <<"A","L","B","A","N","Y">>,
     <<"S","C","H","E","N","E","C","T","A","D","Y">>,
     <<"R","E","N","S","S","E","L","A","E","R">>,
     <<"S","A","R","A","T","O","G","A">>,
     <<"C","O","L","U","M","B","I","A">>,
     <<"G","R","E","E","N","E">>,
     <<"W","A","R","R","E","N">>,
     <<"W","A","S","H","I","N","G","T","O","N">>,
     <<"F","U","L","T","O","N">>,
     <<"M","O","N","T","G","O","M","E","R","Y">>,
     <<"S","C","H","O","H","A","R","I","E">>,
     <<"D","E","L","A","W","A","R","E">> >>

\* upstate_cities, lines 178-183 of cms_data_fetcher.py (20 entries)
upstate_cities ==
  << <<"A","L","B","A","N","Y">>,
     <<"L","A","T","H","A","M">>,
     <<"C","L","I","F","T","O","N"," ","P","A","R","K">>,
     <<"D","E","L","M","A","R">>,
     <<"S","A","R","A","T","O","G","A"," ","S","P","R","I","N","G","S">>,
     <<"S","C","H","E","N","E","C","T","A","D","Y">>,
     <<"N","I","S","K","A","Y","U","N","A">>,
     <<"T","R","O","Y">>,
     <<"E","A","S","T"," ","G","R","E","E","N","B","U","S","H">>,
     <<"S","L","I","N","G","E","R","L","A","N","D","S">>,
     <<"B","A","L","L","S","T","O","N"," ","S","P","A">>,
     <<"M","A","L","T","A">>,
     <<"G","U","I","L","D","E","R","L","A","N","D">>,
     <<"C","O","H","O","E","S">>,
     <<"C","O","L","O","N","I","E">>,
     <<"G","L","E","N","V","I","L","L","E">>,
     <<"G","L","E","N","S"," ","F","A","L","L","S">>,
     <<"Q","U","E","E","N","S","B","U","R","Y">>,
     <<"B","U","R","N","T"," ","H","I","L","L","S">>,
     <<"M","E","C","H","A","N","I","C","V","I","L","L","E">> >>

\* common_specialties, lines 193-198 of cms_data_fetcher.py (13 entries)
common_specialties ==
  << <<"F","A","M","I","L","Y"," ","P","R","A","C","T","I","C","E">>,
     <<"I","N","T","E","R","N","A","L"," ","M","E","D","I","C","I","N","E">>,
     <<"P","E","D","I","A","T","R","I","C","S">>,
     <<"O","B","S","T","E","T","R","I","C","S","/","G","Y","N","E","C","O","L","O","G","Y">>,
     <<"G","A","S","T","R","O","E","N","T","E","R","O","L","O","G","Y">>,
     <<"U","R","O","L","O","G","Y">>,
     <<"C","A","R","D","I","O","L","O","G","Y">>,
     <<"N","E","U","R","O","L","O","G","Y">>,
     <<"N","E","P","H","R","O","L","O","G","Y">>,
     <<"I","N","F","E","C","T","I","O","U","S"," ","D","I","S","E","A","S","E">>,
     <<"F","A","M","I","L","Y"," ","M","E","D","I","C","I","N","E">>,
     <<"G","E","N","E","R","A","L"," ","P","R","A","C","T","I","C","E">>,
     <<"P","R","I","M","A","R","Y"," ","C","A","R","E">> >>

\* address_patterns, lines 208-212 of cms_data_fetcher.py (12 entries)
address_patterns ==
  << <<"1"," ","P","I","N","N","A","C","L","E">>,
     <<"7","1","1"," ","T","R","O","Y","-","S","C","H","E","N","E","C","T","A","D","Y">>,
     <<"2"," ","C","H","E","L","S","E","A">>,
     <<"2"," ","P","A","L","I","S","A","D","E","S">>,
     <<"1","7","8","5"," ","W","E","S","T","E","R","N">>,
     <<"1","4","4","4"," ","W","E","S","T","E","R","N">>,
     <<"1","2","0","1"," ","N","O","T","T">>,
     <<"2","5","4","6"," ","B","A","L","L","T","O","W","N">>,
     <<"1"," ","T","A","L","L","O","W"," ","W","O","O","D">>,
     <<"6"," ","E","X","E","C","U","T","I","V","E"," ","P","A","R","K">>,
     <<"4"," ","P","A","L","I","S","A","D","E","S">>,
     <<"1"," ","C","O","L","U","M","B","I","A">> >>

\* the cities of lines 424-427 and one that is not in the list of lines 178-183
broad_upstate_cities_and_buffalo ==
  << <<"A","L","B","A","N","Y">>,
     <<"L","A","T","H","A","M">>,
     <<"C","L","I","F","T","O","N"," ","P","A","R","K">>,
     <<"D","E","L","M","A","R">>,
     <<"S","A","R","A","T","O","G","A"," ","S","P","R","I","N","G","S">>,
     <<"S","C","H","E","N","E","C","T","A","D","Y">>,
     <<"N","I","S","K","A","Y","U","N","A">>,
     <<"T","R","O","Y">>,
     <<"E","A","S","T"," ","G","R","E","E","N","B","U","S","H">>,
     <<"S","L","I","N","G","E","R","L","A","N","D","S">>,
     <<"B","U","F","F","A","L","O">> >>

\* upstate_cities, lines 424-427 of cms_data_fetcher.py (10 entries)
broad_upstate_cities ==
  << <<"A","L","B","A","N","Y">>,
     <<"L","A","T","H","A","M">>,
     <<"C","L","I","F","T","O","N"," ","P","A","R","K">>,
     <<"D","E","L","M","A","R">>,
     <<"S","A","R","A","T","O","G","A"," ","S","P","R","I","N","G","S">>,
     <<"S","C","H","E","N","E","C","T","A","D","Y">>,
     <<"N","I","S","K","A","Y","U","N","A">>,
     <<"T","R","O","Y">>,
     <<"E","A","S","T"," ","G","R","E","E","N","B","U","S","H">>,
     <<"S","L","I","N","G","E","R","L","A","N","D","S">> >>

\* common_specialties, lines 436-439 of cms_data_fetcher.py (6 entries)
broad_common_specialties ==
  << <<"F","A","M","I","L","Y"," ","P","R","A","C","T","I","C","E">>,
     <<"I","N","T","E","R","N","A","L"," ","M","E","D","I","C","I","N","E">>,
     <<"P","E","D","I","A","T","R","I","C","S">>,
     <<"O","B","S","T","E","T","R","I","C","S","/","G","Y","N","E","C","O","L","O","G","Y">>,
     <<"F","A","M","I","L","Y"," ","M","E","D","I","C","I","N","E">>,
     <<"G","E","N","E","R","A","L"," ","P","R","A","C","T","I","C","E">> >>

\* self.ny_state_code
ny_state_code == <<"N","Y">>

possible_state_cols ==
  <<"Rndrng_Prvdr_State_Abrvtn", "Rndrng_Prvdr_State", "State_Abrvtn", "State">>

possible_county_cols ==
  <<"Rndrng_Prvdr_State_FIPS", "Rndrng_Prvdr_County", "County", "County_FIPS">>

---------------------------------------------------------------------------
(* Data frames *)

\* pd.DataFrame()
EmptyFrame == [cols |-> <<>>, rows |-> <<>>]

\* df.head(0)
Head0(df) == [cols |-> df.cols, rows |-> <<>>]

\* df.empty
IsEmpty(df) == Len(df.cols) = 0 \/ Len(df.rows) = 0

\* col in df.columns
HasCol(df, c) == \E i \in 1..Len(df.cols) : df.cols[i] = c

ColIndex(df, c) == CHOOSE i \in 1..Len(df.cols) : df.cols[i] = c

\* df[c] at row position k
Cell(df, k, c) == df.rows[k][ColIndex(df, c)]

\* the row positions of df, the index of a mask
Index(df) == 1..Len(df.rows)

RECURSIVE MaskedRows(_, _, _)
\* the rows at positions k.. whose mask value is True, in order
MaskedRows(rows, mask, k) ==
  IF k > Len(rows) THEN <<>>
  ELSE (IF mask[k] THEN <<rows[k]>> ELSE <<>>) \o MaskedRows(rows, mask, k + 1)

\* df[mask], mask a boolean Series over the rows of df
Where(df, mask) == [cols |-> df.cols, rows |-> MaskedRows(df.rows, mask, 1)]

\* "for col in candidates: if col in df.columns: ...; break": the position in
\* candidates of the first one that is a column of df, 0 when there is none
FirstPresent(df, candidates) ==
  IF \E k \in 1..Len(candidates) : HasCol(df, candidates[k])
  THEN CHOOSE k \in 1..Len(candidates) :
         /\ HasCol(df, candidates[k])
         /\ \A j \in 1..(k - 1) : ~HasCol(df, candidates[j])
  ELSE 0

Returned(df) == [raised |-> FALSE, df |-> df]
Raised == [raised |-> TRUE, df |-> EmptyFrame]

---------------------------------------------------------------------------
(* filter_upstate_ny_providers *)

\* the lambda of the county mask, on one cell of the county column
in_upstate_county(c) ==
  \E k \in 1..Len(upstate_ny_counties) :
     Contains(Upper(AsTypeStr(c)), upstate_ny_counties[k])

\* line 128: df[state_col] == self.ny_state_code
ny_mask(df, state_col) ==
  [k \in Index(df) |-> Cell(df, k, state_col) = ny_state_code]

\* lines 142-144
upstate_mask(ny_providers, county_col) ==
  [k \in Index(ny_providers) |-> in_upstate_county(Cell(ny_providers, k, county_col))]

filter_without_fallback(df, s) ==
  LET ny_providers == Where(df, ny_mask(df, possible_state_cols[s]))
      c            == FirstPresent(df, possible_county_cols)
  IN IF c = 0 THEN Returned(ny_providers)
     ELSE Returned(Where(ny_providers,
                         upstate_mask(ny_providers, possible_county_cols[c])))

\* filter_state_and_county whose fallback returns the input instead of the
\* state-level rows
filter_falling_back_to_input(df, s) ==
  LET state_col    == possible_state_cols[s]
      ny_providers == Where(df, ny_mask(df, state_col))
      c            == FirstPresent(df, possible_county_cols)
  IN IF c = 0 THEN Returned(ny_providers)
     ELSE
       LET county_col        == possible_county_cols[c]
           upstate_providers == Where(ny_providers, upstate_mask(ny_providers, county_col))
       IN IF Len(upstate_providers.rows) > 0
          THEN Returned(upstate_providers)
          ELSE Returned(df)

\* lines 127-154: the state filter, the county filter and its fallback, with
\* s the position of the state column found among possible_state_cols
filter_state_and_county(df, s) ==
  LET state_col    == possible_state_cols[s]
      ny_providers == Where(df, ny_mask(df, state_col))
      c            == FirstPresent(df, possible_county_cols)
  IN IF c = 0 THEN Returned(ny_providers)
     ELSE
       LET county_col        == possible_county_cols[c]
           upstate_providers == Where(ny_providers, upstate_mask(ny_providers, county_col))
       IN IF Len(upstate_providers.rows) > 0
          THEN Returned(upstate_providers)
          ELSE Returned(ny_providers)

filter_no_state_drops_columns(df) ==
  LET s == FirstPresent(df, possible_state_cols) IN
  IF s = 0 THEN Returned(EmptyFrame) ELSE filter_state_and_county(df, s)

filter_upstate_ny_providers(df) ==
  LET s == FirstPresent(df, possible_state_cols) IN
  IF s = 0 THEN Returned(Head0(df)) ELSE filter_state_and_county(df, s)

---------------------------------------------------------------------------
(* find_community_care_providers.  The columns it reads hold text (object   *)
(* dtype), a cell being a text or NaN.                                      *)

org_name_cols ==
  <<"Rndrng_Prvdr_Org_Name", "Org_Name", "Rndrng_Prvdr_Org_Lgl_Name",
    "Rndrng_Prvdr_Org_DBA_Name">>

grp_pac_id_col == "Rndrng_Prvdr_Grp_Pac_ID"

city_cols == <<"Rndrng_Prvdr_City", "City">>

specialty_cols == <<"Rndrng_Prvdr_Type", "Provider_Type", "Specialty">>

address_cols == <<"Rndrng_Prvdr_St1", "Rndrng_Prvdr_St2", "Street1", "Street2">>

\* line 162: pattern = '|'.join(self.community_care_practices), matched case=False
pattern == FoldCase(community_care_practices)

\* line 213, matched case=False
address_pattern == FoldCase(address_patterns)

\* the columns of a list that are columns of df
PresentCols(df, candidates) ==
  {candidates[k] : k \in {j \in 1..Len(candidates) : HasCol(df, candidates[j])}}

\* lines 167-171: mask |= df[col].str.contains(pattern, case=False, na=False)
org_name_mask(df, k) ==
  \E col \in PresentCols(df, org_name_cols) :
     StrContainsNoCase(Cell(df, k, col), pattern)

\* lines 173-175
grp_pac_id_mask(df, k) ==
  /\ HasCol(df, grp_pac_id_col)
  /\ StrContainsNoCase(Cell(df, k, grp_pac_id_col), pattern)

\* line 189, for one city column
city_mask(df, k, col) == StrUpperContains(Cell(df, k, col), upstate_cities)

\* line 204, for one specialty column
specialty_mask(df, k, spec_col) ==
  StrUpperContains(Cell(df, k, spec_col), common_specialties)

\* city_specialty_mask taking city_mask.any() (line 192) for the city test of
\* the row: one row in a listed city lets in every row of a listed specialty
city_specialty_mask_any_city(df, k) ==
  \E col \in PresentCols(df, city_cols) :
     /\ \E j \in Index(df) : city_mask(df, j, col)
     /\ \E spec_col \in PresentCols(df, specialty_cols) : specialty_mask(df, k, spec_col)

\* lines 186-205: for each city column with any match in the frame, and each
\* specialty column, mask |= (city_mask & specialty_mask)
city_specialty_mask(df, k) ==
  \E col \in PresentCols(df, city_cols) :
     /\ \E j \in Index(df) : city_mask(df, j, col)
     /\ \E spec_col \in PresentCols(df, specialty_cols) :
          city_mask(df, k, col) /\ specialty_mask(df, k, spec_col)

\* lines 207-218
address_mask(df, k) ==
  \E col \in PresentCols(df, address_cols) :
     StrContainsNoCase(Cell(df, k, col), address_pattern)

find_without_address_rule(df) ==
  IF IsEmpty(df) THEN Returned(df)
  ELSE Returned(Where(df, [k \in Index(df) |->
         \/ org_name_mask(df, k)
         \/ grp_pac_id_mask(df, k)
         \/ city_specialty_mask(df, k)]))

find_with_city_alone(df) ==
  IF IsEmpty(df) THEN Returned(df)
  ELSE Returned(Where(df, [k \in Index(df) |->
         \/ org_name_mask(df, k)
         \/ grp_pac_id_mask(df, k)
         \/ \E col \in PresentCols(df, city_cols) : city_mask(df, k, col)
         \/ address_mask(df, k)]))

\* lines 156-224, mask being the OR of the four partial masks
find_community_care_providers(df) ==
  IF IsEmpty(df) THEN Returned(df)
  ELSE Returned(Where(df, [k \in Index(df) |->
         \/ org_name_mask(df, k)
         \/ grp_pac_id_mask(df, k)
         \/ city_specialty_mask(df, k)
         \/ address_mask(df, k)]))

---------------------------------------------------------------------------
(* analyze_provider_metrics: column standardization *)

\* lines 232-249, in the order of the dict
column_mappings ==
  << [std |-> "provider_id",
      aliases |-> <<"Rndrng_Prvdr_NPI", "NPI", "Provider_NPI">>],
     [std |-> "provider_last_name",
      aliases |-> <<"Rndrng_Prvdr_Last_Org_Name", "Last_Name", "Rndrng_Prvdr_Last_Name">>],
     [std |-> "provider_first_name",
      aliases |-> <<"Rndrng_Prvdr_First_Name", "First_Name">>],
     [std |-> "provider_middle_initial",
      aliases |-> <<"Rndrng_Prvdr_MI", "MI", "Middle_Initial">>],
     [std |-> "provider_credentials",
      aliases |-> <<"Rndrng_Prvdr_Crdntls", "Credentials", "Crdntls">>],
     [std |-> "provider_gender",
      aliases |-> <<"Rndrng_Prvdr_Gndr", "Gender", "Gndr">>],
     [std |-> "provider_entity_code",
      aliases |-> <<"Rndrng_Prvdr_Ent_Cd", "Entity_Code", "Ent_Cd">>],
     [std |-> "provider_entity_description",
      aliases |-> <<"Rndrng_Prvdr_Ent_Desc", "Entity_Description", "Ent_Desc">>],
     [std |-> "provider_type",
      aliases |-> <<"Rndrng_Prvdr_Type", "Provider_Type", "Specialty">>],
     [std |-> "total_beneficiaries",
      aliases |-> <<"Tot_Benes", "Beneficiaries", "Bene_Cnt">>],
     [std |-> "total_services",
      aliases |-> <<"Tot_Srvcs", "Services", "Srvc_Cnt">>],
     [std |-> "total_bene_day_services",
      aliases |-> <<"Tot_Bene_Day_Srvcs", "Bene_Day_Srvcs">>],
     [std |-> "avg_submitted_charge",
      aliases |-> <<"Avg_Sbmtd_Chrg", "Submitted_Charge", "Sbmtd_Chrg">>],
     [std |-> "avg_medicare_allowed_amount",
      aliases |-> <<"Avg_Mdcr_Alowd_Amt", "Medicare_Allowed", "Alowd_Amt">>],
     [std |-> "avg_medicare_payment_amount",
      aliases |-> <<"Avg_Mdcr_Pymt_Amt", "Medicare_Payment", "Pymt_Amt">>],
     [std |-> "avg_medicare_standardized_amount",
      aliases |-> <<"Avg_Mdcr_Stdzd_Amt", "Medicare_Standardized", "Stdzd_Amt">>] >>

\* the position in candidates of the last one that is a column of df, 0 when
\* there is none (the loop of lines 256-260 without its break)
LastPresent(df, candidates) ==
  IF \E k \in 1..Len(candidates) : HasCol(df, candidates[k])
  THEN CHOOSE k \in 1..Len(candidates) :
         /\ HasCol(df, candidates[k])
         /\ \A j \in (k + 1)..Len(candidates) : ~HasCol(df, candidates[j])
  ELSE 0

RECURSIVE AvailableFrom(_, _)
\* lines 252-260: available_cols, from field f of column_mappings on, as the
\* sequence of pairs <<source column, standard name>> in the order appended
AvailableFrom(df, f) ==
  IF f > Len(column_mappings) THEN <<>>
  ELSE LET a == FirstPresent(df, column_mappings[f].aliases)
       IN (IF a = 0 THEN <<>>
           ELSE << <<column_mappings[f].aliases[a], column_mappings[f].std>> >>)
          \o AvailableFrom(df, f + 1)

RECURSIVE AvailableLastFrom(_, _)
AvailableLastFrom(df, f) ==
  IF f > Len(column_mappings) THEN <<>>
  ELSE LET a == LastPresent(df, column_mappings[f].aliases)
       IN (IF a = 0 THEN <<>>
           ELSE << <<column_mappings[f].aliases[a], column_mappings[f].std>> >>)
          \o AvailableLastFrom(df, f + 1)

\* col_mapping[col]: the standard name written last for source column col
ColMapping(available, col) ==
  available[CHOOSE i \in 1..Len(available) :
              /\ available[i][1] = col
              /\ \A j \in (i + 1)..Len(available) : available[j][1] # col][2]

\* lines 267-270: df[available_cols].rename(columns=col_mapping)
SelectRename(df, available) ==
  [cols |-> [i \in 1..Len(available) |-> ColMapping(available, available[i][1])],
   rows |-> [k \in Index(df) |->
               [i \in 1..Len(available) |-> Cell(df, k, available[i][1])]]]

\* df.rename(columns=col_mapping), without the selection of line 267
RenameOnly(df, available) ==
  [cols |-> [i \in 1..Len(df.cols) |->
               IF \E j \in 1..Len(available) : available[j][1] = df.cols[i]
               THEN ColMapping(available, df.cols[i])
               ELSE df.cols[i]],
   rows |-> df.rows]

RECURSIVE AvailableAllFrom(_, _)
\* available_cols as the loop of lines 255-260 leaves it without the break:
\* every alias present, field by field
AvailableAllFrom(df, f) ==
  IF f > Len(column_mappings) THEN <<>>
  ELSE LET present == SelectSeq(column_mappings[f].aliases, LAMBDA c : HasCol(df, c))
       IN [a \in 1..Len(present) |-> <<present[a], column_mappings[f].std>>]
          \o AvailableAllFrom(df, f + 1)

analyze_with_every_alias(df) ==
  IF IsEmpty(df) THEN Returned(EmptyFrame)
  ELSE LET available == AvailableAllFrom(df, 1)
       IN IF Len(available) = 0 THEN Returned(Head0(df))
          ELSE Returned(SelectRename(df, available))

analyze_with_last_alias(df) ==
  IF IsEmpty(df) THEN Returned(EmptyFrame)
  ELSE LET available == AvailableLastFrom(df, 1)
       IN IF Len(available) = 0 THEN Returned(Head0(df))
          ELSE Returned(SelectRename(df, available))

analyze_keeping_all_columns(df) ==
  IF IsEmpty(df) THEN Returned(EmptyFrame)
  ELSE LET available == AvailableFrom(df, 1)
       IN IF Len(available) = 0 THEN Returned(Head0(df))
          ELSE Returned(RenameOnly(df, available))

\* lines 226-273
analyze_provider_metrics(df) ==
  IF IsEmpty(df) THEN Returned(EmptyFrame)
  ELSE LET available == AvailableFrom(df, 1)
       IN IF Len(available) = 0 THEN Returned(Head0(df))
          ELSE Returned(SelectRename(df, available))

---------------------------------------------------------------------------
(* get_payment_comparison.  Service codes are numbers, ordered as pandas    *)
(* orders the group keys; counts and amounts are numbers, a mean is the     *)
(* exact fraction [n, d] in place of its float64 value.                     *)

\* the order of characters by code point, for the characters of the sample texts
CodePoints ==
  <<" ","0","1","2","3","4","5","6","7","8","9",
    "A","B","C","D","E","F","G","H","I","J","K","L","M",
    "N","O","P","Q","R","S","T","U","V","W","X","Y","Z",
    "a","b","c","d","e","f","g","h","i","j","k","l","m",
    "n","o","p","q","r","s","t","u","v","w","x","y","z">>

CodePoint(c) == CHOOSE i \in 1..Len(CodePoints) : CodePoints[i] = c

\* a < b on text, as the sort of group keys compares
TextLess(a, b) ==
  \E i \in 1..(Len(b)) :
     /\ \A j \in 1..(i - 1) : j <= Len(a) /\ a[j] = b[j]
     /\ \/ i = Len(a) + 1
        \/ i <= Len(a) /\ CodePoint(a[i]) < CodePoint(b[i])

RECURSIVE SumOver(_, _, _)
\* the sum of column col over the rows of df at the positions of set K
SumOver(df, col, K) ==
  IF K = {} THEN 0
  ELSE LET k == CHOOSE x \in K : TRUE
       IN Cell(df, k, col) + SumOver(df, col, K \ {k})

\* line 509 and 512: the n of nlargest(n)
TopN == 20

\* the function f as a table of its values, each computed once
Table(f) == f @@ <<>>

\* the group keys of df.groupby('HCPCS_Cd')
ServiceCodes(df) == {Cell(df, k, "HCPCS_Cd") : k \in Index(df)}

RowsOfCode(df, code) == {k \in Index(df) : Cell(df, k, "HCPCS_Cd") = code}

\* Series.nlargest(n) of volume, a function on the group keys in sorted order:
\* the n keys of largest value, the first in key order kept among equal values
NLargest(volume, n) ==
  {c \in DOMAIN volume :
     Cardinality({d \in DOMAIN volume :
                    \/ volume[d] > volume[c]
                    \/ volume[d] = volume[c] /\ d < c}) < n}

\* every code, as if line 509 had no nlargest
top_services_unbounded(community_care_df) == ServiceCodes(community_care_df)

\* line 509: groupby('HCPCS_Cd')['Tot_Srvcs'].sum().nlargest(20).index
top_services(community_care_df) ==
  NLargest(Table([c \in ServiceCodes(community_care_df) |->
              SumOver(community_care_df, "Tot_Srvcs", RowsOfCode(community_care_df, c))]),
           TopN)

Mean(df, col, K) == [n |-> SumOver(df, col, K), d |-> Cardinality(K)]

RatSub(a, b) == [n |-> a.n * b.d - b.n * a.d, d |-> a.d * b.d]

\* (diff / base) * 100; d = 0 stands for the inf or NaN of a division by zero
RatPct(diff, base) == [n |-> diff.n * base.d * 100, d |-> diff.d * base.n]

payment_comparison_columns ==
  <<"HCPCS Code", "Description", "CC Allowed Amt", "CC Payment Amt",
    "Total Services", "NY Allowed Amt", "NY Payment Amt",
    "Allowed Difference", "Allowed % Difference",
    "Payment Difference", "Payment % Difference">>

\* lines 514-560, for the codes of top: the groups of cc by code and
\* description (a NaN description drops the row), merged with the means of ny
\* by code, sorted by descending total services
compared_payments(cc, ny, top) ==
  LET groups == {<<Cell(cc, k, "HCPCS_Cd"), Cell(cc, k, "HCPCS_Desc")>> :
                   k \in {j \in Index(cc) : /\ Cell(cc, j, "HCPCS_Cd") \in top
                                            /\ Cell(cc, j, "HCPCS_Desc") # NaN}}
      ny_codes == ServiceCodes(ny) \cap top
      merged == {g \in groups : g[1] \in ny_codes}
      members == Table([g \in merged |->
                    {k \in Index(cc) : /\ Cell(cc, k, "HCPCS_Cd") = g[1]
                                       /\ Cell(cc, k, "HCPCS_Desc") = g[2]}])
      total == Table([g \in merged |-> SumOver(cc, "Tot_Srvcs", members[g])])
      KeyBefore(g, h) == g[1] < h[1] \/ (g[1] = h[1] /\ TextLess(g[2], h[2]))
      Before(g, h) == total[g] > total[h] \/ (total[g] = total[h] /\ KeyBefore(g, h))
      order == [i \in 1..Cardinality(merged) |->
                  CHOOSE g \in merged :
                    Cardinality({h \in merged : Before(h, g)}) = i - 1]
      Row(g) ==
        LET cc_allowed == Mean(cc, "Avg_Mdcr_Alowd_Amt", members[g])
            cc_payment == Mean(cc, "Avg_Mdcr_Pymt_Amt", members[g])
            ny_allowed == Mean(ny, "Avg_Mdcr_Alowd_Amt", RowsOfCode(ny, g[1]))
            ny_payment == Mean(ny, "Avg_Mdcr_Pymt_Amt", RowsOfCode(ny, g[1]))
        IN << g[1], g[2], cc_allowed, cc_payment, total[g], ny_allowed, ny_payment,
              RatSub(cc_allowed, ny_allowed),
              RatPct(RatSub(cc_allowed, ny_allowed), ny_allowed),
              RatSub(cc_payment, ny_payment),
              RatPct(RatSub(cc_payment, ny_payment), ny_payment) >>
  IN [cols |-> payment_comparison_columns,
      rows |-> [i \in 1..Cardinality(merged) |-> Row(order[i])]]

required_cols == <<"HCPCS_Cd", "Avg_Mdcr_Alowd_Amt", "Avg_Mdcr_Pymt_Amt">>

\* lines 497-560.  Without Tot_Srvcs the aggregation of lines 515-521 names a
\* column that does not exist, without HCPCS_Desc so does its groupby, and
\* lines 524-529 need the code and both amounts in the baseline: a KeyError
get_payment_comparison(community_care_df, ny_providers_df) ==
  IF IsEmpty(community_care_df) \/ IsEmpty(ny_providers_df) THEN Returned(EmptyFrame)
  ELSE IF \E i \in 1..Len(required_cols) : ~HasCol(community_care_df, required_cols[i])
  THEN Returned(EmptyFrame)
  ELSE IF \/ ~HasCol(community_care_df, "Tot_Srvcs")
          \/ ~HasCol(community_care_df, "HCPCS_Desc")
          \/ \E i \in 1..Len(required_cols) : ~HasCol(ny_providers_df, required_cols[i])
  THEN Raised
  ELSE Returned(compared_payments(community_care_df, ny_providers_df,
                                  top_services(community_care_df)))

---------------------------------------------------------------------------
(* Grouping and sorting, as the aggregates use them.  The columns below     *)
(* hold numbers, every other column holds text or NaN.                      *)

NumericCols ==
  {"Rndrng_NPI", "HCPCS_Cd", "Tot_Srvcs", "Tot_Benes", "Avg_Mdcr_Alowd_Amt",
   "Avg_Mdcr_Pymt_Amt", "Avg_Sbmtd_Chrg", "Avg_Mdcr_Stdzd_Amt",
   "total_services", "total_beneficiaries", "avg_submitted_charge",
   "avg_medicare_allowed_amount", "avg_medicare_payment_amount",
   "avg_medicare_standardized_amount", "provider_id"}

IsNaN(col, x) == col \notin NumericCols /\ x = NaN

\* x < y on two cells of column col
CellLess(col, x, y) == IF col \in NumericCols THEN x < y ELSE TextLess(x, y)

\* the key of row k under the grouping columns by
KeyOf(df, by, k) == [i \in 1..Len(by) |-> Cell(df, k, by[i])]

\* df.groupby(by): the group keys; a row with NaN in a grouping column is in
\* no group (dropna=True)
GroupKeys(df, by) ==
  {KeyOf(df, by, k) :
     k \in {j \in Index(df) : \A i \in 1..Len(by) : ~IsNaN(by[i], Cell(df, j, by[i]))}}

\* the row positions of the group of key
GroupRows(df, by, key) == {k \in Index(df) : KeyOf(df, by, k) = key}

\* a < b on group keys, column by column
KeyLess(by, a, b) ==
  \E i \in 1..Len(by) :
     /\ \A j \in 1..(i - 1) : a[j] = b[j]
     /\ CellLess(by[i], a[i], b[i])

\* the group keys in the order groupby(sort=True) yields them
SortedKeys(df, by) ==
  LET keys == GroupKeys(df, by)
  IN [i \in 1..Cardinality(keys) |->
        CHOOSE g \in keys : Cardinality({h \in keys : KeyLess(by, h, g)}) = i - 1]

\* sort_values(ascending=False) of a sequence of rows by the number at
\* position at: descending, rows of equal value in their given order
SortDescending(rows, at) ==
  [i \in 1..Len(rows) |->
     rows[CHOOSE k \in 1..Len(rows) :
            Cardinality({j \in 1..Len(rows) :
                           \/ rows[j][at] > rows[k][at]
                           \/ rows[j][at] = rows[k][at] /\ j < k}) = i - 1]]

\* the number of distinct values of column col over the rows at positions K
NUnique(df, col, K) ==
  Cardinality({Cell(df, k, col) : k \in {j \in K : ~IsNaN(col, Cell(df, j, col))}})

---------------------------------------------------------------------------
(* The aggregates of the provider file: get_specialty_distribution,         *)
(* get_payment_statistics, get_service_volume_by_provider                   *)

\* Series.value_counts(): one row <<value, count>> per value other than NaN,
\* by descending count, values of equal count in the order they first occur
ValueCounts(df, col) ==
  LET present == {k \in Index(df) : ~IsNaN(col, Cell(df, k, col))}
      firsts  == {k \in present : \A j \in present : j < k => Cell(df, j, col) # Cell(df, k, col)}
      byFirst == [i \in 1..Cardinality(firsts) |->
                    CHOOSE k \in firsts : Cardinality({j \in firsts : j < k}) = i - 1]
  IN SortDescending(
       [i \in 1..Cardinality(firsts) |->
          << Cell(df, byFirst[i], col),
             Cardinality({k \in present : Cell(df, k, col) = Cell(df, byFirst[i], col)}) >>],
       2)

\* lines 275-282
get_specialty_distribution(providers_df) ==
  IF ~HasCol(providers_df, "provider_type") \/ IsEmpty(providers_df)
  THEN Returned(EmptyFrame)
  ELSE Returned([cols |-> <<"Specialty", "Count">>,
                 rows |-> ValueCounts(providers_df, "provider_type")])

payment_cols ==
  <<"avg_submitted_charge", "avg_medicare_allowed_amount",
    "avg_medicare_payment_amount", "avg_medicare_standardized_amount">>

\* the numbers of column col in ascending order
SortedColumn(df, col) ==
  [i \in Index(df) |->
     Cell(df, CHOOSE k \in Index(df) :
                Cardinality({j \in Index(df) :
                               \/ Cell(df, j, col) < Cell(df, k, col)
                               \/ Cell(df, j, col) = Cell(df, k, col) /\ j < k}) = i - 1,
          col)]

\* Series.median()
Median(df, col) ==
  LET v == SortedColumn(df, col)
      n == Len(v)
  IN IF n % 2 = 1 THEN [n |-> v[(n + 1) \div 2], d |-> 1]
     ELSE [n |-> v[n \div 2] + v[n \div 2 + 1], d |-> 2]

\* lines 284-311: the dict of statistics, as the sequence of its items
get_payment_statistics(providers_df) ==
  IF IsEmpty(providers_df) THEN <<>>
  ELSE LET available_cols ==
             SelectSeq(payment_cols, LAMBDA col : HasCol(providers_df, col))
       IN [i \in 1..Len(available_cols) |->
             [col    |-> available_cols[i],
              mean   |-> Mean(providers_df, available_cols[i], Index(providers_df)),
              median |-> Median(providers_df, available_cols[i]),
              min    |-> SortedColumn(providers_df, available_cols[i])[1],
              max    |-> SortedColumn(providers_df, available_cols[i])[Len(providers_df.rows)]]]

\* lines 331-340: the output name of a column
volume_column_renames(col) ==
  CASE col = "provider_last_name" -> "Provider Last/Org Name"
    [] col = "provider_first_name" -> "Provider First Name"
    [] col = "provider_type" -> "Specialty"
    [] col = "total_services" -> "Total Services"
    [] OTHER -> col

\* lines 313-344
get_service_volume_by_provider(providers_df) ==
  IF ~HasCol(providers_df, "total_services") \/ IsEmpty(providers_df)
  THEN Returned(EmptyFrame)
  ELSE IF ~HasCol(providers_df, "provider_last_name") THEN Returned(EmptyFrame)
  ELSE
    LET group_cols ==
          <<"provider_last_name">>
          \o (IF HasCol(providers_df, "provider_first_name")
              THEN <<"provider_first_name">> ELSE <<>>)
          \o (IF HasCol(providers_df, "provider_type")
              THEN <<"provider_type">> ELSE <<>>)
        keys == SortedKeys(providers_df, group_cols)
        volume_by_provider ==
          [i \in 1..Len(keys) |->
             Append(keys[i], SumOver(providers_df, "total_services",
                                     GroupRows(providers_df, group_cols, keys[i])))]
    IN Returned(
         [cols |-> [i \in 1..(Len(group_cols) + 1) |->
                      volume_column_renames(Append(group_cols, "total_services")[i])],
          rows |-> SortDescending(volume_by_provider, Len(group_cols) + 1)])

---------------------------------------------------------------------------
(* The aggregates of the provider-service file *)

\* lines 476-483; groupby(['HCPCS_Cd', 'HCPCS_Desc']) is a KeyError without
\* the description column
service_counts_by_code(df) ==
  IF ~HasCol(df, "Tot_Srvcs") THEN Returned(EmptyFrame)
  ELSE IF ~HasCol(df, "HCPCS_Desc") THEN Raised
  ELSE
    LET by   == <<"HCPCS_Cd", "HCPCS_Desc">>
        keys == SortedKeys(df, by)
        service_counts ==
          [i \in 1..Len(keys) |->
             Append(keys[i], SumOver(df, "Tot_Srvcs", GroupRows(df, by, keys[i])))]
    IN Returned([cols |-> <<"HCPCS Code", "HCPCS Description", "Total Services">>,
                 rows |-> SortDescending(service_counts, 3)])

\* get_top_services as if line 473 did not test df.empty
get_top_services_unguarded(df) ==
  IF ~HasCol(df, "HCPCS_Cd") THEN Returned(EmptyFrame)
  ELSE service_counts_by_code(df)

\* lines 471-483
get_top_services(df) ==
  IF IsEmpty(df) \/ ~HasCol(df, "HCPCS_Cd") THEN Returned(EmptyFrame)
  ELSE service_counts_by_code(df)

\* lines 485-495; ['Rndrng_NPI'] is a KeyError without that column
get_specialty_distribution_from_services(df) ==
  IF IsEmpty(df) \/ ~HasCol(df, "Rndrng_Prvdr_Type") THEN Returned(EmptyFrame)
  ELSE IF ~HasCol(df, "Rndrng_NPI") THEN Raised
  ELSE
    LET by   == <<"Rndrng_Prvdr_Type">>
        keys == SortedKeys(df, by)
        specialty_counts ==
          [i \in 1..Len(keys) |->
             Append(keys[i], NUnique(df, "Rndrng_NPI", GroupRows(df, by, keys[i])))]
    IN Returned([cols |-> <<"Specialty", "Provider Count">>,
                 rows |-> SortDescending(specialty_counts, 2)])

provider_group_cols ==
  <<"Rndrng_NPI", "Rndrng_Prvdr_Last_Org_Name", "Rndrng_Prvdr_First_Name",
    "Rndrng_Prvdr_Type">>

\* lines 575-587: the columns aggregated, in the order of agg_metrics
provider_agg_cols ==
  <<"Tot_Srvcs", "Tot_Benes", "Avg_Mdcr_Alowd_Amt", "Avg_Mdcr_Pymt_Amt">>

\* lines 611-625
provider_column_renames(col) ==
  CASE col = "Rndrng_NPI" -> "NPI"
    [] col = "Rndrng_Prvdr_Last_Org_Name" -> "Last Name"
    [] col = "Rndrng_Prvdr_First_Name" -> "First Name"
    [] col = "Rndrng_Prvdr_Type" -> "Specialty"
    [] col = "Tot_Srvcs" -> "Total Services"
    [] col = "Tot_Benes" -> "Total Beneficiaries"
    [] col = "Avg_Mdcr_Alowd_Amt" -> "Avg Allowed Amount"
    [] col = "Avg_Mdcr_Pymt_Amt" -> "Avg Payment Amount"
    [] col = "Unique_Services" -> "Unique Services"
    [] OTHER -> col

RECURSIVE Flatten(_)
\* the concatenation of a sequence of sequences
Flatten(ss) == IF ss = <<>> THEN <<>> ELSE Head(ss) \o Flatten(Tail(ss))

\* left.merge(right, how='left') on the first column of both, right bringing
\* its last column: per left row, one row for every right row of the same
\* first cell, in the order of right (the left row alone, with NaN, for none)
MergeLeftOnFirst(left, right) ==
  Flatten([i \in 1..Len(left) |->
     LET hits == SelectSeq(right, LAMBDA r : r[1] = left[i][1])
     IN IF hits = <<>> THEN <<Append(left[i], NaN)>>
        ELSE [j \in 1..Len(hits) |-> Append(left[i], hits[j][Len(hits[j])])]])

\* lines 562-627
get_provider_metrics(df) ==
  IF IsEmpty(df) THEN Returned(EmptyFrame)
  ELSE
    LET available_cols == SelectSeq(provider_group_cols, LAMBDA col : HasCol(df, col))
        agg_metrics    == SelectSeq(provider_agg_cols, LAMBDA col : HasCol(df, col))
        keys           == SortedKeys(df, available_cols)
        unique_services ==
          [i \in 1..Len(keys) |->
             Append(keys[i], NUnique(df, "HCPCS_Cd", GroupRows(df, available_cols, keys[i])))]
        Aggregate(col, K) ==
          IF col \in {"Tot_Srvcs", "Tot_Benes"} THEN SumOver(df, col, K)
          ELSE Mean(df, col, K)
        provider_metrics ==
          [i \in 1..Len(keys) |->
             keys[i] \o [m \in 1..Len(agg_metrics) |->
                           Aggregate(agg_metrics[m], GroupRows(df, available_cols, keys[i]))]]
    IN IF available_cols = <<>> THEN Returned(EmptyFrame)
       ELSE IF agg_metrics = <<>>
       THEN IF ~HasCol(df, "HCPCS_Cd") THEN Raised
            ELSE Returned([cols |-> Append(available_cols, "Unique_Services"),
                           rows |-> unique_services])
       ELSE IF ~HasCol(df, "HCPCS_Cd")
       THEN Returned([cols |-> [i \in 1..(Len(available_cols) + Len(agg_metrics)) |->
                                  provider_column_renames((available_cols \o agg_metrics)[i])],
                      rows |-> provider_metrics])
       ELSE IF available_cols[1] # "Rndrng_NPI" THEN Raised
       ELSE Returned(
              [cols |-> [i \in 1..(Len(available_cols) + Len(agg_metrics) + 1) |->
                           provider_column_renames(
                             (available_cols \o agg_metrics \o <<"Unique_Services">>)[i])],
               rows |-> MergeLeftOnFirst(provider_metrics, unique_services)])

\* line 635: the columns of the sample frames whose lower-cased name contains
\* 'qual', 'outcome', 'complication' or 'readmission'
quality_col_names == {"Quality_Score"}

provider_name_cols ==
  <<"Rndrng_Prvdr_Last_Org_Name", "Rndrng_Prvdr_First_Name", "Rndrng_Prvdr_Type">>

\* df[cols].drop_duplicates(): the distinct rows, each where it first occurs
DropDuplicates(df, cols) ==
  LET projected == [k \in Index(df) |-> KeyOf(df, cols, k)]
      firsts    == {k \in Index(df) : \A j \in 1..(k - 1) : projected[j] # projected[k]}
  IN [i \in 1..Cardinality(firsts) |->
        projected[CHOOSE k \in firsts : Cardinality({j \in firsts : j < k}) = i - 1]]

\* left.merge(right) on the provider identifier, the first cell of a row of
\* right and the cell at position at of a row of left: per left row, one row
\* for every right row of the same identifier, with the other cells of right
MergeInnerOnNPI(left, at, right) ==
  Flatten([i \in 1..Len(left) |->
     LET hits == SelectSeq(right, LAMBDA r : r[1] = left[i][at])
     IN [j \in 1..Len(hits) |-> left[i] \o Tail(hits[j])]])

\* lines 629-667
get_quality_metrics(df) ==
  IF IsEmpty(df) THEN Returned(EmptyFrame)
  ELSE
    LET quality_cols == SelectSeq(df.cols, LAMBDA col : col \in quality_col_names)
        available_name_cols == SelectSeq(provider_name_cols, LAMBDA col : HasCol(df, col))
        by   == <<"Rndrng_NPI">>
        keys == SortedKeys(df, by)
        provider_names == DropDuplicates(df, by \o available_name_cols)
        service_diversity ==
          [i \in 1..Len(keys) |->
             Append(keys[i], NUnique(df, "HCPCS_Cd", GroupRows(df, by, keys[i])))]
        quality_metrics ==
          [i \in 1..Len(keys) |->
             keys[i] \o [q \in 1..Len(quality_cols) |->
                           Mean(df, quality_cols[q], GroupRows(df, by, keys[i]))]]
    IN IF quality_cols = <<>> /\ HasCol(df, "Rndrng_NPI") /\ HasCol(df, "HCPCS_Cd")
       THEN IF available_name_cols = <<>>
            THEN Returned([cols |-> <<"NPI", "Service Diversity">>,
                           rows |-> service_diversity])
            ELSE Returned([cols |-> <<"NPI", "Service Diversity">> \o available_name_cols,
                           rows |-> MergeInnerOnNPI(service_diversity, 1, provider_names)])
       ELSE IF ~HasCol(df, "Rndrng_NPI") THEN Raised
       ELSE IF available_name_cols = <<>>
            THEN Returned([cols |-> by \o quality_cols, rows |-> quality_metrics])
            ELSE Returned([cols |-> by \o quality_cols \o available_name_cols,
                           rows |-> MergeInnerOnNPI(quality_metrics, 1, provider_names)])

---------------------------------------------------------------------------
(* analyze_provider_service_data and the provider branch of run_analysis *)

state_abrvtn_col == "Rndrng_Prvdr_State_Abrvtn"

\* lines 420-449: the broader approach, on the state-level rows
broader_match(ny_providers) ==
  IF ~HasCol(ny_providers, "Rndrng_Prvdr_City") THEN Head0(ny_providers)
  ELSE
    LET upstate_providers ==
          Where(ny_providers,
                [k \in Index(ny_providers) |->
                   StrUpperContains(Cell(ny_providers, k, "Rndrng_Prvdr_City"),
                                    broad_upstate_cities)])
    IN IF ~HasCol(upstate_providers, "Rndrng_Prvdr_Type") THEN upstate_providers
       ELSE Where(upstate_providers,
                  [k \in Index(upstate_providers) |->
                     StrUpperContains(Cell(upstate_providers, k, "Rndrng_Prvdr_Type"),
                                      broad_common_specialties)])

\* lines 409-415
state_level_rows(df) ==
  IF HasCol(df, state_abrvtn_col) THEN Where(df, ny_mask(df, state_abrvtn_col)) ELSE df

\* service_population as if lines 420-449 were not there
service_population_strict_only(ny_providers) ==
  find_community_care_providers(ny_providers).df

\* lines 417-449
service_population(ny_providers) ==
  CHOOSE community_care_providers \in
    { IF Len(strict.rows) = 0 THEN broader_match(ny_providers) ELSE strict :
        strict \in {find_community_care_providers(ny_providers).df} } : TRUE

\* an entry of the results dict: a data frame, or another value (a dict)
Item(name, value) == [name |-> name, frame |-> TRUE, value |-> value]
NoFrameItem(name, value) == [name |-> name, frame |-> FALSE, value |-> value]

\* the results dict of a run, or the exception that ended it
Results(items) == [raised |-> FALSE, items |-> items]
RunRaised == [raised |-> TRUE, items |-> <<>>]

\* the keys of the results dict of lines 455-467, in the order they are set
service_result_names ==
  <<"top_services", "specialty_distribution", "payment_comparison",
    "provider_metrics", "quality_metrics">>

\* lines 451-469: the five aggregates of the population, the comparison
\* against the state-level rows
service_aggregates(community_care_providers, ny_providers) ==
  << get_top_services(community_care_providers),
     get_specialty_distribution_from_services(community_care_providers),
     get_payment_comparison(community_care_providers, ny_providers),
     get_provider_metrics(community_care_providers),
     get_quality_metrics(community_care_providers) >>

\* lines 405-469; each stage is computed once and handed on as a value
analyze_provider_service_data(df) ==
  CHOOSE analysis \in
    { IF \E i \in 1..Len(aggregates) : aggregates[i].raised
      THEN RunRaised
      ELSE Results([i \in 1..Len(aggregates) |->
                      Item(service_result_names[i], aggregates[i].df)]) :
        aggregates \in
          UNION { { service_aggregates(community_care_providers, ny_providers) :
                      community_care_providers \in {service_population(ny_providers)} } :
                    ny_providers \in {state_level_rows(df)} } } : TRUE

\* lines 373-387: the aggregates of the standardized table
provider_results(provider_metrics) ==
  Results(<< Item("provider_metrics", provider_metrics),
             Item("specialty_distribution",
                  get_specialty_distribution(provider_metrics).df),
             NoFrameItem("payment_stats", get_payment_statistics(provider_metrics)),
             Item("service_volume",
                  get_service_volume_by_provider(provider_metrics).df) >>)

\* lines 362-387; each stage is computed once and handed on as a value
analyze_provider_data(medicare_providers) ==
  CHOOSE analysis \in
    { provider_results(provider_metrics) :
        provider_metrics \in
          { analyze_provider_metrics(community_care_providers).df :
              community_care_providers \in
                { find_community_care_providers(upstate_ny_providers).df :
                    upstate_ny_providers \in
                      {filter_upstate_ny_providers(medicare_providers).df} } } } : TRUE

---------------------------------------------------------------------------
(* Sample cell values *)

T_NY      == <<"N","Y">>
T_ny      == <<"n","y">>
T_CA      == <<"C","A">>
T_Albany  == <<"A","l","b","a","n","y">>
T_Kings   == <<"K","i","n","g","s">>
T_36      == <<"3","6">>
T_npi1    == <<"1">>
T_npi2    == <<"2">>
T_ccp     == <<"c","c","p">>
T_Acme    == <<"A","c","m","e">>
T_Buffalo == <<"B","u","f","f","a","l","o">>
T_Cardio  == <<"C","a","r","d","i","o","l","o","g","y">>
T_Derma   == <<"D","e","r","m","a","t","o","l","o","g","y">>
T_Pinnacle == <<"1"," ","P","i","n","n","a","c","l","e"," ","P","l">>
T_Main    == <<"9"," ","M","a","i","n"," ","S","t">>
T_CCP1    == <<"C","C","P","1">>
T_77      == <<"7","7">>
T_a       == <<"a">>
T_b       == <<"b">>
T_c       == <<"c">>
T_Malta   == <<"M","a","l","t","a">>
T_Family  == <<"F","a","m","i","l","y"," ","P","r","a","c","t","i","c","e">>

---------------------------------------------------------------------------
(* Paths, files and the network *)
(* A path is a record [abs, parts].  The content of a file is the table    *)
(* its bytes spell, a data frame; a file of no bytes is EmptyFrame.  The   *)
(* file system is a function from the paths of the existing files to their *)
(* content.                                                                *)

Rel(parts) == [abs |-> FALSE, parts |-> parts]

Abs(parts) == [abs |-> TRUE, parts |-> parts]

\* Path(name) for a plain file name
StrPath(name) == Rel(<<name>>)

\* pathlib's a / b: an absolute right operand replaces the left one
Join(a, b) == IF b.abs THEN b ELSE [abs |-> a.abs, parts |-> a.parts \o b.parts]

Parent(p) ==
  [abs |-> p.abs,
   parts |-> IF Len(p.parts) = 0 THEN <<>> ELSE SubSeq(p.parts, 1, Len(p.parts) - 1)]

latest_dataset_url ==
  "https://data.cms.gov/sites/default/files/2024-05/1570d9f0-59ef-416f-bb37-e78a7afe6f88/MUP_PHY_R24_P05_V10_D22_Prov_Svc.csv"

provider_dataset_url ==
  "https://data.cms.gov/sites/default/files/2024-06/5aed74f7-d04e-48b4-93b3-d396a2e59c87/MUP_PHY_R24_P07_V10_D22_Prov.csv"

results_dir == Rel(<<"results">>)

provider_service_file == "MUP_PHY_R24_P05_V10_D22_Prov_Svc.csv"

provider_file == "medicare_providers.csv"

service_file == "medicare_services.csv"

\* the directories that exist: the working directory and the two the
\* constructor makes (lines 20 and 69)
IsDirectory(base, p) == p \in {Rel(<<>>), base, results_dir}

\* path.exists() / os.path.exists(path)
Exists(fs, p) == p \in DOMAIN fs

WriteFile(fs, p, content) == [q \in DOMAIN fs \cup {p} |-> IF q = p THEN content ELSE fs[q]]

\* what a request meets: no connection, an error status, the whole body, or
\* a stream that breaks after a part of the body
Unreachable == [kind |-> "unreachable", received |-> EmptyFrame]

HttpError == [kind |-> "http_error", received |-> EmptyFrame]

Complete(body) == [kind |-> "ok", received |-> body]

Broken(part) == [kind |-> "broken", received |-> part]

Downloaded(fs, asked, raised, path) ==
  [files |-> fs, requests |-> asked, raised |-> raised, path |-> path]

\* download_file without its cache check
download_file_unconditional(fs, asked, base, url, local_filename, response) ==
  LET local_path == Join(base, local_filename)
  IN IF response.kind \in {"unreachable", "http_error"}
     THEN Downloaded(fs, asked + 1, TRUE, local_path)
     ELSE IF ~IsDirectory(base, Parent(local_path))
     THEN Downloaded(fs, asked + 1, TRUE, local_path)
     ELSE Downloaded(WriteFile(fs, local_path, response.received), asked + 1,
                     response.kind = "broken", local_path)

\* download_file that asks the server even when the file is cached
download_file_revalidating(fs, asked, base, url, local_filename, response) ==
  LET local_path == Join(base, local_filename)
  IN IF Exists(fs, local_path)
     THEN Downloaded(fs, asked + 1, FALSE, local_path)
     ELSE download_file_unconditional(fs, asked, base, url, local_filename, response)

\* download_file that asks the server a second time when the first request
\* failed, and gives up when that fails too
download_file_retrying(fs, asked, base, url, local_filename, response) ==
  LET local_path == Join(base, local_filename)
      once == download_file_unconditional(fs, asked, base, url, local_filename, response)
  IN IF Exists(fs, local_path) THEN Downloaded(fs, asked, FALSE, local_path)
     ELSE IF response.kind \in {"unreachable", "http_error"}
     THEN Downloaded(fs, asked + 2, TRUE, local_path)
     ELSE once

\* lines 71-89, on the file system fs with asked requests issued so far
download_file(fs, asked, base, url, local_filename, response) ==
  LET local_path == Join(base, local_filename)
  IN IF Exists(fs, local_path)
     THEN Downloaded(fs, asked, FALSE, local_path)
     ELSE IF response.kind \in {"unreachable", "http_error"}
     THEN Downloaded(fs, asked + 1, TRUE, local_path)
     ELSE IF ~IsDirectory(base, Parent(local_path))
     THEN Downloaded(fs, asked + 1, TRUE, local_path)
     ELSE Downloaded(WriteFile(fs, local_path, response.received), asked + 1,
                     response.kind = "broken", local_path)

\* the sample files of the data directory and of the two URLs
ServiceCols ==
  <<"Rndrng_NPI", "Rndrng_Prvdr_Last_Org_Name", "Rndrng_Prvdr_State_Abrvtn",
    "Rndrng_Prvdr_City", "Rndrng_Prvdr_Type", "HCPCS_Cd", "HCPCS_Desc",
    "Tot_Srvcs", "Avg_Mdcr_Alowd_Amt", "Avg_Mdcr_Pymt_Amt">>

\* a provider-service file with rows of the population, of the state and of
\* another state
ServicesMatching ==
  [cols |-> ServiceCols,
   rows |-> << <<1, T_Acme, T_NY, T_Albany, T_Cardio, 7, T_a, 3, 10, 8>>,
               <<1, T_Acme, T_NY, T_Albany, T_Cardio, 8, T_b, 2, 20, 15>>,
               <<2, T_b, T_NY, T_Buffalo, T_Derma, 7, T_a, 5, 12, 9>>,
               <<3, T_c, T_CA, T_Albany, T_Cardio, 7, T_a, 1, 30, 25>> >>]

\* a provider-service file none of whose rows is of the population
ServicesUnmatched ==
  [cols |-> ServiceCols,
   rows |-> << <<2, T_b, T_NY, T_Buffalo, T_Derma, 7, T_a, 5, 12, 9>> >>]

\* a provider-service file without a state column
ServicesNoState ==
  [cols |-> <<"Rndrng_NPI", "Rndrng_Prvdr_Last_Org_Name", "Rndrng_Prvdr_City",
              "Rndrng_Prvdr_Type", "HCPCS_Cd", "HCPCS_Desc", "Tot_Srvcs",
              "Avg_Mdcr_Alowd_Amt", "Avg_Mdcr_Pymt_Amt">>,
   rows |-> << <<3, T_c, T_Albany, T_Cardio, 7, T_a, 1, 30, 25>>,
               <<2, T_b, T_Buffalo, T_Derma, 8, T_b, 5, 12, 9>> >>]

ServiceFrames == {ServicesMatching, ServicesUnmatched, ServicesNoState}

ProviderCols ==
  <<"Rndrng_Prvdr_NPI", "Rndrng_Prvdr_Last_Org_Name", "Rndrng_Prvdr_First_Name",
    "Rndrng_Prvdr_State_Abrvtn", "Rndrng_Prvdr_City", "Rndrng_Prvdr_Type",
    "Tot_Srvcs", "Avg_Mdcr_Pymt_Amt">>

ProvidersMatching ==
  [cols |-> ProviderCols,
   rows |-> << <<T_npi1, T_Acme, T_a, T_NY, T_Albany, T_Cardio, 3, 8>>,
               <<T_npi2, T_b, T_c, T_NY, T_Buffalo, T_Derma, 5, 9>>,
               <<T_77, T_c, T_a, T_CA, T_Albany, T_Cardio, 1, 25>> >>]

ProvidersUnmatched ==
  [cols |-> ProviderCols,
   rows |-> << <<T_npi2, T_b, T_c, T_NY, T_Buffalo, T_Derma, 5, 9>>,
               <<T_77, T_c, T_a, T_CA, T_Albany, T_Cardio, 1, 25>> >>]

\* the bodies a URL may serve
Served(url) ==
  IF url = provider_dataset_url THEN {ProvidersMatching, ProvidersUnmatched}
  ELSE {ServicesMatching}

\* what reached the disk when the stream broke: nothing, or the first row
Cuts(url) ==
  IF url = provider_dataset_url
  THEN {EmptyFrame, [cols |-> ProviderCols, rows |-> SubSeq(ProvidersMatching.rows, 1, 1)]}
  ELSE {EmptyFrame}

Responses(url) ==
  {Unreachable, HttpError}
    \cup {Complete(body) : body \in Served(url)}
    \cup {Broken(part) : part \in Cuts(url)}

\* pd.read_csv(path): no file and a file of no bytes raise
read_csv(fs, path) ==
  IF ~Exists(fs, path) THEN Raised
  ELSE IF Len(fs[path].cols) = 0 THEN Raised
  ELSE Returned(fs[path])

\* the call of download_file a step made, if it made one
NoDownload == [called |-> FALSE, target |-> Rel(<<>>)]

DownloadTo(path) == [called |-> TRUE, target |-> path]

\* what a step records: the call of download_file it made, and the number
\* of completed runs in a row that end with it
Step(download, runs) ==
  [called |-> download.called, target |-> download.target, runs |-> runs]

Fetched(fs, asked, read, download) ==
  [files |-> fs, requests |-> asked, raised |-> read.raised, df |-> read.df,
   download |-> download]

\* get_medicare_providers that downloads whether or not the file is cached
get_medicare_providers_uncached(fs, asked, base, response) ==
  LET cached_file == Join(base, StrPath(provider_file))
      d == download_file_unconditional(fs, asked, base, provider_dataset_url,
                                       cached_file, response)
  IN Fetched(d.files, d.requests,
             IF d.raised THEN Raised ELSE read_csv(d.files, cached_file),
             DownloadTo(d.path))

\* lines 693-707
get_medicare_providers(fs, asked, base, response) ==
  LET cached_file == Join(base, StrPath(provider_file))
  IN IF Exists(fs, cached_file)
     THEN Fetched(fs, asked, read_csv(fs, cached_file), NoDownload)
     ELSE LET d == download_file(fs, asked, base, provider_dataset_url,
                                 cached_file, response)
          IN Fetched(d.files, d.requests,
                     IF d.raised THEN Raised ELSE read_csv(d.files, cached_file),
                     DownloadTo(d.path))

\* line 675: f"{result_name}.csv"
result_file(result_name) ==
  CASE result_name = "top_services" -> "top_services.csv"
    [] result_name = "specialty_distribution" -> "specialty_distribution.csv"
    [] result_name = "payment_comparison" -> "payment_comparison.csv"
    [] result_name = "provider_metrics" -> "provider_metrics.csv"
    [] result_name = "quality_metrics" -> "quality_metrics.csv"
    [] result_name = "payment_stats" -> "payment_stats.csv"
    [] result_name = "service_volume" -> "service_volume.csv"

\* line 687: f"{result_name}_count"
count_column(result_name) ==
  CASE result_name = "top_services" -> "top_services_count"
    [] result_name = "specialty_distribution" -> "specialty_distribution_count"
    [] result_name = "payment_comparison" -> "payment_comparison_count"
    [] result_name = "provider_metrics" -> "provider_metrics_count"
    [] result_name = "quality_metrics" -> "quality_metrics_count"
    [] result_name = "payment_stats" -> "payment_stats_count"
    [] result_name = "service_volume" -> "service_volume_count"

summary_file == "analysis_summary.csv"

IsFrameItem(item) == item.frame

\* lines 680-689: the one-row summary; now is the second read at line 681
summary_df(items, now) ==
  LET frames == SelectSeq(items, IsFrameItem)
      dataset == IF \E i \in 1..Len(items) : items[i].name = "top_services"
                 THEN "Provider-Service" ELSE "Provider"
  IN [cols |-> <<"timestamp", "dataset">>
                 \o [i \in 1..Len(frames) |-> count_column(frames[i].name)],
      rows |-> << <<now, dataset>>
                    \o [i \in 1..Len(frames) |-> Len(frames[i].value.rows)] >>]

\* the entries save_results writes a table file for (line 674)
SavedItems(items) ==
  {i \in 1..Len(items) : items[i].frame /\ ~IsEmpty(items[i].value)}

\* save_results that stamps every table file with the time of the run
save_results_stamped(dir, items, now) ==
  LET saved == SavedItems(items)
      names == {result_file(items[i].name) : i \in saved} \cup {summary_file}
  IN [f \in DOMAIN dir \cup names |->
        IF f = summary_file THEN summary_df(items, now)
        ELSE IF f \in names
        THEN LET it == items[CHOOSE i \in saved : result_file(items[i].name) = f]
             IN [cols |-> it.value.cols \o <<"timestamp">>,
                 rows |-> [k \in 1..Len(it.value.rows) |-> it.value.rows[k] \o <<now>>]]
        ELSE dir[f]]

\* lines 669-691, on the results directory dir: file name -> content
save_results(dir, items, now) ==
  LET saved == SavedItems(items)
      names == {result_file(items[i].name) : i \in saved} \cup {summary_file}
  IN [f \in DOMAIN dir \cup names |->
        IF f = summary_file THEN summary_df(items, now)
        ELSE IF f \in names
        THEN items[CHOOSE i \in saved : result_file(items[i].name) = f].value
        ELSE dir[f]]

Ran(fetched, analysed, dir) ==
  [files |-> fetched.files, requests |-> fetched.requests,
   raised |-> analysed.raised, items |-> analysed.items,
   results |-> dir, download |-> fetched.download]

\* the analyses of the sample files, computed once
ServiceAnalyses ==
  Table([df \in ServiceFrames |-> analyze_provider_service_data(df)])

ProviderAnalyses ==
  Table([df \in (Served(provider_dataset_url) \cup Cuts(provider_dataset_url))
                  \ {EmptyFrame} |->
           analyze_provider_data(df)])

\* line 355
analysed_services(df) ==
  IF df \in DOMAIN ServiceAnalyses THEN ServiceAnalyses[df]
  ELSE analyze_provider_service_data(df)

\* lines 362-387
analysed_providers(df) ==
  IF df \in DOMAIN ProviderAnalyses THEN ProviderAnalyses[df]
  ELSE analyze_provider_data(df)

\* the run after its source file is read: analysis, then save_results
\* unless an exception ended the run before line 390
analysed_and_saved(fetched, use_services, dir, now) ==
  CHOOSE ran \in
    { Ran(fetched, analysed,
          IF analysed.raised THEN dir ELSE save_results(dir, analysed.items, now)) :
        analysed \in
          { IF fetched.raised THEN RunRaised
            ELSE IF use_services THEN analysed_services(fetched.df)
            ELSE analysed_providers(fetched.df) } } : TRUE

\* what reading the provider-service file gives (line 351)
read_services(fs, asked, path, download) ==
  Fetched(fs, asked, read_csv(fs, path), download)

\* run_analysis that fetches both source files before it analyses
run_analysis_fetching_both(fs, asked, base, dir, response, now) ==
  CHOOSE ran \in
    { analysed_and_saved(fetched, TRUE, dir, now) :
        fetched \in
          UNION { { IF svc.raised \/ providers.raised
                    THEN Fetched(providers.files, providers.requests, Raised,
                                 providers.download)
                    ELSE read_services(providers.files, providers.requests, svc.path,
                                       providers.download) :
                      providers \in {get_medicare_providers(svc.files, svc.requests,
                                                            base, response)} } :
                    svc \in {download_file(fs, asked, base, latest_dataset_url,
                                           StrPath(provider_service_file), response)} } } : TRUE

\* lines 346-403
run_analysis(fs, asked, base, dir, response, now) ==
  LET provider_service_path == Join(base, StrPath(provider_service_file))
      use_services == Exists(fs, provider_service_path)
  IN CHOOSE ran \in
       { analysed_and_saved(fetched, use_services, dir, now) :
           fetched \in
             { IF use_services
               THEN read_services(fs, asked, provider_service_path, NoDownload)
               ELSE get_medicare_providers(fs, asked, base, response) } } : TRUE

---------------------------------------------------------------------------
(* The visualize stage: CMSDataVisualizer (cms_data_visualizer.py) and      *)
(* CMSVisualizer (cms_data_visualizer_simple.py).  A table file of the      *)
(* results directory holds a frame, a file of column names alone a frame    *)
(* without rows; the report is the sequence of the fragments appended to    *)
(* html_content.                                                            *)

output_dir == Rel(<<"visualizations">>)

\* self.output_dir / 'cms_analysis.html'
report_path == Join(output_dir, StrPath("cms_analysis.html"))

\* self.output_dir / 'correlation_heatmap.png'
heatmap_path == Join(output_dir, StrPath("correlation_heatmap.png"))

\* pd.read_csv(self.results_dir / name): no file and a file of no bytes raise
read_table(dir, name) ==
  IF name \notin DOMAIN dir THEN Raised
  ELSE IF Len(dir[name].cols) = 0 THEN Raised
  ELSE Returned(dir[name])

\* the table files create_visualizations reads from the results directory
\* (cms_data_visualizer.py, lines 56-60)
visualizer_tables ==
  <<"provider_metrics.csv", "top_services.csv", "payment_comparison.csv",
    "specialty_distribution.csv", "quality_metrics.csv">>

HasAll(df, columns) == \A c \in columns : HasCol(df, c)

\* the cells of column col, in row order
Column(df, col) == [k \in Index(df) |-> Cell(df, k, col)]

\* df with one more column, holding cells[k] in row k
WithColumn(df, col, cells) ==
  [cols |-> Append(df.cols, col),
   rows |-> [k \in Index(df) |-> Append(df.rows[k], cells[k])]]

\* a chart: what it shows and the table it draws
Figure(chart, df) == [chart |-> chart, data |-> df]

\* the value None of a constructor that builds no chart
None == [chart |-> "None", data |-> EmptyFrame]

\* the outcome of a chart constructor: a figure or None, or an exception
Built(fig) == [raised |-> FALSE, fig |-> fig]
ChartRaised == [raised |-> TRUE, fig |-> None]

\* a constructor of CMSDataVisualizer: None for a table without rows, a
\* KeyError when a column it names is missing
GuardedChart(chart, df, columns) ==
  IF IsEmpty(df) THEN Built(None)
  ELSE IF ~HasAll(df, columns) THEN ChartRaised
  ELSE Built(Figure(chart, df))

\* cms_data_visualizer.py, lines 125-150
create_top_providers_chart(df) ==
  GuardedChart("top_providers", df, {"Total Services", "Last Name", "First Name"})

\* lines 152-170
create_correlation_heatmap(df) ==
  GuardedChart("correlation_heatmap", df,
               {"Total Services", "Avg Payment Amount", "Total Beneficiaries"})

\* lines 172-192
create_specialty_distribution_chart(df) ==
  GuardedChart("specialty_distribution", df, {"Specialty", "Provider Count"})

\* lines 194-224; line 203 takes len(x) of every description, a TypeError
\* for a missing one
create_top_services_chart(df) ==
  IF IsEmpty(df) THEN Built(None)
  ELSE IF ~HasAll(df, {"HCPCS Description", "Total Services"}) THEN ChartRaised
  ELSE IF \E k \in Index(df) : k <= 15 /\ Cell(df, k, "HCPCS Description") = NaN
  THEN ChartRaised
  ELSE Built(Figure("top_services", df))

\* the same constructor without the test of line 194
create_top_services_chart_unguarded(df) ==
  IF ~HasAll(df, {"HCPCS Description", "Total Services"}) THEN ChartRaised
  ELSE IF \E k \in Index(df) : k <= 15 /\ Cell(df, k, "HCPCS Description") = NaN
  THEN ChartRaised
  ELSE Built(Figure("top_services", df))

\* lines 226-267
create_provider_metrics_chart(df) ==
  GuardedChart("provider_metrics", df,
               {"Total Services", "Avg Payment Amount", "Unique Services",
                "Total Beneficiaries", "Last Name", "Specialty"})

\* lines 269-312
create_provider_performance_matrix(df) ==
  GuardedChart("provider_performance_matrix", df,
               {"Total Services", "Total Beneficiaries", "Quality Metrics",
                "Avg Payment Amount", "Last Name", "Specialty"})

\* lines 314-353
create_specialty_benchmarking_chart(df) ==
  GuardedChart("specialty_benchmarking", df,
               {"Specialty", "Total Services", "Avg Payment Amount",
                "Total Beneficiaries"})

\* lines 355-423
create_quality_metrics_dashboard(df) ==
  GuardedChart("quality_metrics_dashboard", df,
               {"Quality Score", "Efficiency Score", "Quality per Service",
                "Last Name", "First Name"})

\* lines 94-123: the numbers of the report's summary, each sum, mean and
\* median kept as the column it is taken of
perform_analysis(provider_services, top_services_table, specialty_distribution) ==
  [total_providers   |-> Len(provider_services.rows),
   total_specialties |-> Len(specialty_distribution.rows),
   services          |-> Column(provider_services, "Total Services"),
   beneficiaries     |-> Column(provider_services, "Total Beneficiaries"),
   top_specialties   |-> SubSeq(SortDescending(specialty_distribution.rows,
                                  ColIndex(specialty_distribution, "Provider Count")),
                                1, IF Len(specialty_distribution.rows) < 5
                                   THEN Len(specialty_distribution.rows) ELSE 5),
   financial         |-> HasCol(provider_services, "Avg Payment Amount"),
   payments          |-> IF HasCol(provider_services, "Avg Payment Amount")
                         THEN Column(provider_services, "Avg Payment Amount")
                         ELSE <<>>,
   total_unique_services |-> Len(top_services_table.rows)]

\* the columns perform_analysis names (lines 100-120)
analysis_is_defined(provider_services, top_services_table, specialty_distribution) ==
  /\ HasAll(provider_services, {"Total Services", "Total Beneficiaries"})
  /\ HasAll(specialty_distribution, {"Specialty", "Provider Count"})
  /\ HasAll(top_services_table, {"HCPCS Description", "Total Services"})

\* a / b as a fraction
Ratio(a, b) == [n |-> a, d |-> b]

\* lines 70-79: the provider table with the derived columns (a column of
\* numbers holds no NaN here, so fillna(0) changes nothing)
derived_provider_services(data) ==
  LET services == Column(data, "Total Services")
      efficiency == WithColumn(data, "Efficiency Score",
                      [k \in Index(data) |->
                         Ratio(services[k] * 100, Cell(data, k, "Total Beneficiaries"))])
      cost == WithColumn(efficiency, "Cost per Service",
                [k \in Index(data) |->
                   [per |-> Cell(data, k, "Avg Payment Amount"), over |-> services[k]]])
      quality == IF HasCol(data, "Quality Metrics") THEN cost
                 ELSE WithColumn(cost, "Quality Metrics", [k \in Index(data) |-> 0])
      score == WithColumn(quality, "Quality Score", Column(quality, "Quality Metrics"))
  IN WithColumn(score, "Quality per Service",
       [k \in Index(data) |-> Ratio(Cell(score, k, "Quality Score"), services[k])])

\* the fragments of the report
Header(analysis_results) == [kind |-> "header", of |-> analysis_results]
Financial(payments) == [kind |-> "financial", of |-> payments]
Performance == [kind |-> "performance"]
Open(i) == [kind |-> "open", chart |-> i]
Plot(i, fig) == [kind |-> "plot", chart |-> i, fig |-> fig]
Close(i) == [kind |-> "close", chart |-> i]
Insight(i) == [kind |-> "insight", chart |-> i]
Footer == [kind |-> "footer"]

\* lines 522-541: what figure i (counted from 0) adds to html_content, the
\* serialization by pyo.plot failing for the positions of failing
figure_fragments(figures, failing, i) ==
  IF figures[i + 1] = None THEN <<>>
  ELSE IF i \in failing THEN <<Open(i)>>
  ELSE <<Open(i), Plot(i, figures[i + 1]), Close(i)>>

\* the outcome of a visualize run: whether it raised, whether it reached
\* the final write, the files after it, the figures built and the positions
\* of the charts whose construction or serialization failed
Visualized(raised, written, fs, figures, failed) ==
  [raised |-> raised, written |-> written, files |-> fs, figures |-> figures,
   failed |-> failed]

\* create_html_report that opens the report file for appending
create_html_report_appending(fs, figures, analysis_results, failing) ==
  LET html_content ==
        <<Header(analysis_results)>>
        \o (IF analysis_results.financial
            THEN <<Financial(analysis_results.payments)>> ELSE <<>>)
        \o <<Performance>>
        \o Flatten([j \in 1..Len(figures) |-> figure_fragments(figures, failing, j - 1)])
        \o <<Footer>>
  IN Visualized(FALSE, TRUE,
                WriteFile(fs, report_path,
                          (IF Exists(fs, report_path) THEN fs[report_path] ELSE <<>>)
                            \o html_content),
                figures,
                {i \in failing : i < Len(figures) /\ figures[i + 1] # None})

\* lines 425-558
create_html_report(fs, figures, analysis_results, failing) ==
  LET html_content ==
        <<Header(analysis_results)>>
        \o (IF analysis_results.financial
            THEN <<Financial(analysis_results.payments)>> ELSE <<>>)
        \o <<Performance>>
        \o Flatten([j \in 1..Len(figures) |-> figure_fragments(figures, failing, j - 1)])
        \o <<Footer>>
  IN Visualized(FALSE, TRUE, WriteFile(fs, report_path, html_content), figures,
                {i \in failing : i < Len(figures) /\ figures[i + 1] # None})

\* lines 79-89: the constructors in the order they are called
main_charts(provider_services, top_services_table, specialty_distribution) ==
  << create_top_providers_chart(provider_services),
     create_correlation_heatmap(provider_services),
     create_specialty_distribution_chart(specialty_distribution),
     create_top_services_chart(top_services_table),
     create_provider_metrics_chart(provider_services),
     create_provider_performance_matrix(provider_services),
     create_specialty_benchmarking_chart(provider_services),
     create_quality_metrics_dashboard(provider_services) >>

\* the position (counted from 0) of the first constructor that raised
FirstRaised(outcomes) ==
  (CHOOSE j \in 1..Len(outcomes) :
     outcomes[j].raised /\ \A h \in 1..(j - 1) : ~outcomes[h].raised) - 1

\* lines 161-164: the heatmap is saved as an image when it is built
SavedHeatmap(fs, outcomes, reached) ==
  IF reached >= 2 /\ ~outcomes[2].raised /\ outcomes[2].fig # None
  THEN WriteFile(fs, heatmap_path, <<[kind |-> "png", of |-> outcomes[2].fig.data]>>)
  ELSE fs

\* lines 51-92: create_visualizations on the results directory dir
create_visualizations(fs, dir, failing) ==
  IF \E i \in 1..Len(visualizer_tables) : read_table(dir, visualizer_tables[i]).raised
  THEN Visualized(TRUE, FALSE, fs, <<>>, {})
  ELSE
    LET data == dir["provider_metrics.csv"]
        top_services_table == dir["top_services.csv"]
        specialty_distribution == dir["specialty_distribution.csv"]
    IN IF \/ ~analysis_is_defined(data, top_services_table, specialty_distribution)
          \/ ~HasCol(data, "Avg Payment Amount")
       THEN Visualized(TRUE, FALSE, fs, <<>>, {})
       ELSE
         CHOOSE run \in
           { IF \E j \in 1..Len(outcomes) : outcomes[j].raised
             THEN Visualized(TRUE, FALSE,
                             SavedHeatmap(fs, outcomes, FirstRaised(outcomes)),
                             <<>>, {FirstRaised(outcomes)})
             ELSE create_html_report(
                    SavedHeatmap(fs, outcomes, Len(outcomes)),
                    [j \in 1..Len(outcomes) |-> outcomes[j].fig],
                    perform_analysis(data, top_services_table, specialty_distribution),
                    failing) :
               outcomes \in
                 { main_charts(provider_services, top_services_table,
                               specialty_distribution) :
                     provider_services \in {derived_provider_services(data)} } } : TRUE

\* the table files create_report reads (cms_data_visualizer_simple.py,
\* lines 23-26)
simple_tables ==
  <<"provider_metrics.csv", "top_services.csv", "payment_comparison.csv",
    "specialty_distribution.csv">>

\* a constructor of CMSVisualizer: a KeyError (or a ValueError of plotly
\* express) when a column it names is missing; no test for a table without
\* rows, which plotly express either draws as an empty chart or rejects
PlainChart(chart, df, columns, draws_empty) ==
  IF ~HasAll(df, columns) THEN ChartRaised
  ELSE IF Len(df.rows) = 0 /\ ~draws_empty THEN ChartRaised
  ELSE Built(Figure(chart, df))

\* cms_data_visualizer_simple.py, lines 55-111
create_specialty_chart(df, draws_empty) ==
  PlainChart("specialty", df, {"Provider Count", "Specialty"}, draws_empty)

\* lines 113-150; line 129 takes df_sorted.iloc[0], an IndexError for a table
\* without rows, and line 136 slices the description of that row, a
\* TypeError for a missing one
create_services_chart(df) ==
  IF ~HasAll(df, {"Total Services", "HCPCS Code", "HCPCS Description"}) THEN ChartRaised
  ELSE IF Len(df.rows) = 0 THEN ChartRaised
  ELSE IF SortDescending(df.rows, ColIndex(df, "Total Services"))[1]
            [ColIndex(df, "HCPCS Description")] = NaN
  THEN ChartRaised
  ELSE Built(Figure("services", df))

\* lines 152-274; the opportunity analysis has its own handler (lines 196-250)
create_payment_chart(df, draws_empty) ==
  PlainChart("payment", df,
             {"Payment % Difference", "HCPCS Code", "NY Payment Amt", "CC Payment Amt"},
             draws_empty)

\* lines 276-295
create_provider_chart(df, draws_empty) ==
  PlainChart("provider", df,
             {"Total Services", "Avg Payment Amount", "Unique Services",
              "Total Beneficiaries", "Last Name"},
             draws_empty)

\* lines 297-345
create_physician_vs_average_chart(df, draws_empty) ==
  PlainChart("physician_vs_average", df,
             {"Specialty", "Total Services", "Avg Payment Amount", "Unique Services",
              "Total Beneficiaries", "Last Name"},
             draws_empty)

\* lines 347-399
create_specialty_performance_chart(df, draws_empty) ==
  PlainChart("specialty_performance", df,
             {"Specialty", "Total Services", "Avg Payment Amount", "Unique Services",
              "Total Beneficiaries"},
             draws_empty)

\* the rows lines 415-425 keep: a z-score beyond 2 in one of three columns.
\* Among n rows no z-score exceeds (n - 1) / sqrt(n), which is below 2 for
\* fewer than six rows; every table of the model has fewer than six rows, so
\* no row is kept
Outliers(df) == Head0(df)

\* lines 401-457
create_outliers_chart(df, draws_empty) ==
  IF ~HasAll(df, {"Total Services", "Avg Payment Amount", "Unique Services", "Last Name"})
  THEN ChartRaised
  ELSE PlainChart("outliers", Outliers(df), {}, draws_empty)

\* lines 459-513
create_efficiency_chart(df, draws_empty) ==
  PlainChart("efficiency", df,
             {"Specialty", "Total Services", "Avg Payment Amount",
              "Total Beneficiaries", "Last Name"},
             draws_empty)

\* lines 515-577: every exception ends in the placeholder chart
create_quality_comparison_chart(df, dir, draws_empty) ==
  LET quality_metrics == read_table(dir, "quality_metrics.csv")
  IN IF \/ quality_metrics.raised
        \/ ~HasAll(df, {"NPI", "Specialty", "Total Services", "Total Beneficiaries",
                        "Last Name"})
        \/ ~HasAll(quality_metrics.df, {"NPI", "Service Diversity"})
        \/ Len(df.rows) = 0 /\ ~draws_empty
     THEN Built(Figure("quality_comparison_placeholder", EmptyFrame))
     ELSE Built(Figure("quality_comparison", df))

\* lines 29-39: the constructors in the order they are called
simple_charts(dir, draws_empty) ==
  LET provider_metrics == dir["provider_metrics.csv"]
  IN << create_specialty_chart(dir["specialty_distribution.csv"], draws_empty),
        create_services_chart(dir["top_services.csv"]),
        create_payment_chart(dir["payment_comparison.csv"], draws_empty),
        create_provider_chart(provider_metrics, draws_empty),
        create_physician_vs_average_chart(provider_metrics, draws_empty),
        create_specialty_performance_chart(provider_metrics, draws_empty),
        create_outliers_chart(provider_metrics, draws_empty),
        create_efficiency_chart(provider_metrics, draws_empty),
        create_quality_comparison_chart(provider_metrics, dir, draws_empty) >>

\* lines 582-585: the numbers of the header
simple_statistics(data) ==
  [total_providers |-> Len(data.rows),
   services        |-> Column(data, "Total Services"),
   beneficiaries   |-> Column(data, "Total Beneficiaries"),
   payments        |-> Column(data, "Avg Payment Amount")]

\* lines 703-742: what figure i (counted from 0) adds to html_content
simple_fragments(figures, i) ==
  <<Open(i), Close(i), Plot(i, figures[i + 1])>>
    \o (IF i \in {2, 4, 6} THEN <<Insight(i)>> ELSE <<>>)

\* generate_html that opens the report file first and writes each part as it
\* is made: an exception of pyo.plot leaves the parts before it in the file
generate_html_writing_as_it_goes(fs, figures, data, failing) ==
  IF ~HasAll(data, {"Total Services", "Total Beneficiaries", "Avg Payment Amount"})
  THEN Visualized(TRUE, FALSE, fs, figures, {})
  ELSE IF \E i \in failing : i < Len(figures)
  THEN LET first == CHOOSE i \in failing : \A h \in failing : i <= h
       IN Visualized(TRUE, TRUE,
                     WriteFile(fs, report_path,
                               <<Header(simple_statistics(data))>>
                                 \o Flatten([j \in 1..first |->
                                               simple_fragments(figures, j - 1)])),
                     figures, {first})
  ELSE Visualized(FALSE, TRUE,
                  WriteFile(fs, report_path,
                            <<Header(simple_statistics(data))>>
                              \o Flatten([j \in 1..Len(figures) |->
                                            simple_fragments(figures, j - 1)])
                              \o <<Footer>>),
                  figures, {})

\* lines 579-751; an exception of pyo.plot leaves generate_html
generate_html(fs, figures, data, failing) ==
  IF ~HasAll(data, {"Total Services", "Total Beneficiaries", "Avg Payment Amount"})
  THEN Visualized(TRUE, FALSE, fs, figures, {})
  ELSE IF \E i \in failing : i < Len(figures)
  THEN Visualized(TRUE, FALSE, fs, figures,
                  {CHOOSE i \in failing : \A h \in failing : i <= h})
  ELSE Visualized(FALSE, TRUE,
                  WriteFile(fs, report_path,
                            <<Header(simple_statistics(data))>>
                              \o Flatten([j \in 1..Len(figures) |->
                                            simple_fragments(figures, j - 1)])
                              \o <<Footer>>),
                  figures, {})

\* lines 19-53: create_report; every exception is caught at line 51 and the
\* method returns False, which raised stands for
create_report(fs, dir, failing, draws_empty) ==
  IF \E i \in 1..Len(simple_tables) : read_table(dir, simple_tables[i]).raised
  THEN Visualized(TRUE, FALSE, fs, <<>>, {})
  ELSE
    CHOOSE run \in
      { IF \E j \in 1..Len(outcomes) : outcomes[j].raised
        THEN Visualized(TRUE, FALSE, fs, <<>>, {FirstRaised(outcomes)})
        ELSE generate_html(fs, [j \in 1..Len(outcomes) |-> outcomes[j].fig],
                           dir["provider_metrics.csv"], failing) :
          outcomes \in {simple_charts(dir, draws_empty)} } : TRUE

---------------------------------------------------------------------------
(* Sample frames *)

\* the frames with the given columns and at most n rows, each cell of a
\* column drawn from values[column]
FramesOver(cols, values, n) ==
  LET Rows == {r \in [1..Len(cols) -> UNION {values[cols[i]] : i \in 1..Len(cols)}] :
                 \A i \in 1..Len(cols) : r[i] \in values[cols[i]]}
  IN {[cols |-> cols, rows |-> rows] :
        rows \in UNION {[1..k -> Rows] : k \in 0..n}}

NoFileSystem ==
  /\ base_dir = Rel(<<"data">>)
  /\ files = <<>>
  /\ results = <<>>
  /\ requests = 0
  /\ clock = 0
  /\ last = Step(NoDownload, 0)
  /\ calls = 0

fsVars == <<base_dir, files, results, requests, clock, last, calls>>

---------------------------------------------------------------------------
(* The region filter applied to every sample frame *)

MaxRegionRows == 2

RegionStateCols ==
  { <<>>, <<"Rndrng_Prvdr_State_Abrvtn">>, <<"State">>,
    <<"State", "Rndrng_Prvdr_State_Abrvtn">> }

RegionCountyCols ==
  { <<>>, <<"Rndrng_Prvdr_County">>, <<"County">>,
    <<"County", "Rndrng_Prvdr_State_FIPS">> }

RegionValues ==
  [col \in {"Rndrng_NPI", "Rndrng_Prvdr_State_Abrvtn", "State",
            "Rndrng_Prvdr_State_FIPS", "Rndrng_Prvdr_County", "County"} |->
     CASE col = "Rndrng_NPI" -> {T_npi1}
       [] col \in {"Rndrng_Prvdr_State_Abrvtn", "State"} -> {T_NY, T_ny, T_CA}
       [] col = "Rndrng_Prvdr_State_FIPS" -> {T_36}
       [] OTHER -> {T_Albany, T_Kings, NaN}]

InitRegion ==
  /\ op = "init"
  /\ output = Returned(EmptyFrame)
  /\ \E sc \in RegionStateCols, cc \in RegionCountyCols :
       \E df \in FramesOver(<<"Rndrng_NPI">> \o sc \o cc, RegionValues, MaxRegionRows) :
          input = <<df>>
  /\ NoFileSystem

ApplyRegionFilter ==
  /\ op = "init"
  /\ op' = "filter_upstate_ny_providers"
  /\ output' = filter_upstate_ny_providers(input[1])
  /\ UNCHANGED <<input, fsVars>>

NextRegion == ApplyRegionFilter

SpecRegion == InitRegion /\ [][NextRegion]_vars

---------------------------------------------------------------------------
(* Claims about the region filter, under SpecRegion *)

RegionApplied == op = "filter_upstate_ny_providers"

HasStateCol(df) == FirstPresent(df, possible_state_cols) # 0
HasCountyCol(df) == FirstPresent(df, possible_county_cols) # 0

\* the rows of df whose state, in the state column the filter resolves, is
\* the fixed state code
StateLevelRows(df) ==
  LET sc == ColIndex(df, possible_state_cols[FirstPresent(df, possible_state_cols)])
  IN SelectSeq(df.rows, LAMBDA r : r[sc] = ny_state_code)

\* the state-level rows whose county text contains a listed county name
CountyMatchingRows(df) ==
  LET cc == ColIndex(df, possible_county_cols[FirstPresent(df, possible_county_cols)])
  IN SelectSeq(StateLevelRows(df), LAMBDA r : in_upstate_county(r[cc]))

\* C4: for an input frame with none of the candidate state columns,
\* filter_upstate_ny_providers does not raise and returns a frame with zero
\* rows and the columns of the input.
C4_NoStateColumnGivesEmptySameColumns ==
  (RegionApplied /\ ~HasStateCol(input[1])) =>
     /\ ~output.raised
     /\ output.df.rows = <<>>
     /\ output.df.cols = input[1].cols

\* a frame with rows and a county column but no state column went through the filter
C4_Witness ==
  /\ RegionApplied
  /\ ~HasStateCol(input[1])
  /\ HasCountyCol(input[1])
  /\ Len(input[1].rows) = MaxRegionRows
  /\ output.df.rows = <<>>

\* C5: for an input frame with a state column and a county column, when the
\* state-level filter keeps at least one row and no kept row's county text
\* contains a listed county name the filter returns exactly the state-level
\* rows; when at least one kept row matches a county it returns exactly the
\* county-matching rows.
C5_CountyFallback ==
  (RegionApplied /\ HasStateCol(input[1]) /\ HasCountyCol(input[1])) =>
     /\ ~output.raised
     /\ output.df.cols = input[1].cols
     /\ (StateLevelRows(input[1]) # <<>> /\ CountyMatchingRows(input[1]) = <<>>)
          => output.df.rows = StateLevelRows(input[1])
     /\ CountyMatchingRows(input[1]) # <<>>
          => output.df.rows = CountyMatchingRows(input[1])

\* the fallback happened: several state-level rows, none in a listed county,
\* all of them returned
C5_Witness ==
  /\ RegionApplied
  /\ HasStateCol(input[1]) /\ HasCountyCol(input[1])
  /\ Len(StateLevelRows(input[1])) > 1
  /\ CountyMatchingRows(input[1]) = <<>>
  /\ output.df.rows = StateLevelRows(input[1])

\* the narrowing happened: a state-level row outside the listed counties was dropped
C5_WitnessNarrowed ==
  /\ RegionApplied
  /\ HasStateCol(input[1]) /\ HasCountyCol(input[1])
  /\ CountyMatchingRows(input[1]) # <<>>
  /\ Len(CountyMatchingRows(input[1])) < Len(StateLevelRows(input[1]))
  /\ output.df.rows = CountyMatchingRows(input[1])


---------------------------------------------------------------------------
(* The population match applied to every sample frame *)

MaxMatchRows == 3

MatchCols ==
  { <<"Rndrng_Prvdr_Org_Name", "Rndrng_Prvdr_City", "Rndrng_Prvdr_Type">>,
    <<"Rndrng_Prvdr_St1", "City", "Specialty">>,
    <<"Rndrng_Prvdr_Grp_Pac_ID", "Street2">>,
    <<"Rndrng_Prvdr_City", "Org_Name">>,
    <<"City", "Rndrng_Prvdr_City", "Provider_Type">>,
    <<"Rndrng_NPI">> }

MatchValues ==
  [col \in UNION {{cols[i] : i \in 1..Len(cols)} : cols \in MatchCols} |->
     CASE col \in {"Rndrng_Prvdr_Org_Name", "Org_Name"} -> {T_ccp, T_Acme, NaN}
       [] col = "Rndrng_Prvdr_Grp_Pac_ID" -> {T_CCP1, T_77}
       [] col \in {"Rndrng_Prvdr_City", "City"} -> {T_Albany, T_Buffalo}
       [] col \in {"Rndrng_Prvdr_Type", "Provider_Type", "Specialty"} -> {T_Cardio, T_Derma}
       [] col = "Rndrng_Prvdr_St1" -> {T_Pinnacle, T_Main}
       [] col = "Street2" -> {T_Pinnacle, T_Main, NaN}
       [] OTHER -> {T_npi1, T_npi2}]

InitMatch ==
  /\ op = "init"
  /\ output = Returned(EmptyFrame)
  /\ \E cols \in MatchCols :
       \E df \in FramesOver(cols, MatchValues, MaxMatchRows) : input = <<df>>
  /\ NoFileSystem

ApplyMatch ==
  /\ op = "init"
  /\ op' = "find_community_care_providers"
  /\ output' = find_community_care_providers(input[1])
  /\ UNCHANGED <<input, fsVars>>

NextMatch == ApplyMatch

SpecMatch == InitMatch /\ [][NextMatch]_vars

---------------------------------------------------------------------------
(* Claims about the population match, under SpecMatch *)

MatchApplied == op = "find_community_care_providers"

\* the four match rules, on the row at position k of frame df
NameRule(df, k) == org_name_mask(df, k)
GroupIdRule(df, k) == grp_pac_id_mask(df, k)
InKnownCity(df, k) ==
  \E col \in PresentCols(df, city_cols) : city_mask(df, k, col)
HasKnownSpecialty(df, k) ==
  \E col \in PresentCols(df, specialty_cols) : specialty_mask(df, k, col)
CitySpecialtyRule(df, k) == InKnownCity(df, k) /\ HasKnownSpecialty(df, k)
AddressRule(df, k) == address_mask(df, k)

SomeRule(df, k) ==
  NameRule(df, k) \/ GroupIdRule(df, k) \/ CitySpecialtyRule(df, k) \/ AddressRule(df, k)

InFrame(df, r) == \E k \in 1..Len(df.rows) : df.rows[k] = r

RECURSIVE RowsAt(_, _, _)
\* the rows of df at the positions of set P that are >= k, in order
RowsAt(df, P, k) ==
  IF k > Len(df.rows) THEN <<>>
  ELSE (IF k \in P THEN <<df.rows[k]>> ELSE <<>>) \o RowsAt(df, P, k + 1)

\* C6: find_community_care_providers includes every row for which at least
\* one of the four match rules (organization name, group identifier,
\* city+specialty, street address) holds; a row matching the street-address
\* rule alone is in the result.
C6_AnyRuleIncludes ==
  MatchApplied =>
     /\ ~output.raised
     /\ \A k \in Index(input[1]) :
          SomeRule(input[1], k) => InFrame(output.df, input[1].rows[k])

\* a row that matches the address rule and no name, city or specialty is in the
\* result, next to a row of the same frame that is left out
C6_Witness ==
  /\ MatchApplied
  /\ \E k, j \in Index(input[1]) :
       /\ AddressRule(input[1], k)
       /\ ~NameRule(input[1], k) /\ ~GroupIdRule(input[1], k)
       /\ ~InKnownCity(input[1], k) /\ ~HasKnownSpecialty(input[1], k)
       /\ PresentCols(input[1], city_cols) # {}
       /\ PresentCols(input[1], specialty_cols) # {}
       /\ InFrame(output.df, input[1].rows[k])
       /\ ~InFrame(output.df, input[1].rows[j])

\* C7: find_community_care_providers returns exactly the rows that satisfy at
\* least one rule, in input order: a row matching no rule is excluded, and the
\* city rule is joint, a known city without a known specialty (or a known
\* specialty outside every known city) not being enough.
C7_ExactlyTheMatchingRows ==
  MatchApplied =>
     /\ ~output.raised
     /\ output.df.cols = input[1].cols
     /\ output.df.rows =
          RowsAt(input[1], {k \in Index(input[1]) : SomeRule(input[1], k)}, 1)

\* three providers: the first matches by organization name, the second only by
\* city and specialty, the third is in a known city without a known specialty
\* and matches nothing; the result is the first two
C7_Witness ==
  /\ MatchApplied
  /\ Len(input[1].rows) = 3
  /\ LET df == input[1] IN
     /\ NameRule(df, 1)
     /\ CitySpecialtyRule(df, 2)
     /\ ~NameRule(df, 2) /\ ~GroupIdRule(df, 2) /\ ~AddressRule(df, 2)
     /\ InKnownCity(df, 3) /\ ~HasKnownSpecialty(df, 3)
     /\ ~SomeRule(df, 3)
     /\ output.df.rows = <<df.rows[1], df.rows[2]>>

---------------------------------------------------------------------------
(* The column standardization applied to every sample frame *)

MaxStdRows == 2

StdCols ==
  { <<"NPI", "Rndrng_Prvdr_NPI", "Zip">>,
    <<"Provider_NPI", "Specialty", "Provider_Type", "Tot_Srvcs">>,
    <<"Zip", "Phone">>,
    <<"Last_Name", "First_Name", "Rndrng_Prvdr_Last_Name">>,
    <<"Srvc_Cnt", "Zip", "Services", "Tot_Srvcs">>,
    <<"Avg_Mdcr_Pymt_Amt">> }

\* a first alias holds a or b, a later alias b or c, so that their data differ
StdValues ==
  [col \in UNION {{cols[i] : i \in 1..Len(cols)} : cols \in StdCols} |->
     IF \E f \in 1..Len(column_mappings) : column_mappings[f].aliases[1] = col
     THEN {T_a, T_b}
     ELSE {T_b, T_c}]

InitStd ==
  /\ op = "init"
  /\ output = Returned(EmptyFrame)
  /\ \E cols \in StdCols :
       \E df \in FramesOver(cols, StdValues, MaxStdRows) : input = <<df>>
  /\ NoFileSystem

ApplyStandardize ==
  /\ op = "init"
  /\ op' = "analyze_provider_metrics"
  /\ output' = analyze_provider_metrics(input[1])
  /\ UNCHANGED <<input, fsVars>>

NextStd == ApplyStandardize

SpecStd == InitStd /\ [][NextStd]_vars

---------------------------------------------------------------------------
(* Claims about the column standardization, under SpecStd *)

StdApplied == op = "analyze_provider_metrics"

Fields == 1..Len(column_mappings)

CanonicalNames == {column_mappings[f].std : f \in Fields}

\* the fields of which some alias is a column of df
FieldsPresent(df) ==
  {f \in Fields : \E a \in 1..Len(column_mappings[f].aliases) :
                     HasCol(df, column_mappings[f].aliases[a])}

\* the first alias of field f, in the field's alias order, that is a column of df
FirstAlias(df, f) ==
  LET al == column_mappings[f].aliases
  IN al[CHOOSE a \in 1..Len(al) :
          HasCol(df, al[a]) /\ \A b \in 1..(a - 1) : ~HasCol(df, al[b])]

ColumnPositions(df, name) == {i \in 1..Len(df.cols) : df.cols[i] = name}

\* C8: for every canonical field, the output column of that name holds, row
\* by row, the data of the first alias (in the field's alias order) present in
\* the input, whatever later aliases are present; an input with rows gets such
\* a column for every field that has an alias present.
C8_FirstAliasWins ==
  StdApplied =>
    /\ ~output.raised
    /\ \A f \in FieldsPresent(input[1]) :
         /\ ~IsEmpty(input[1]) =>
              ColumnPositions(output.df, column_mappings[f].std) # {}
         /\ \A i \in ColumnPositions(output.df, column_mappings[f].std) :
              /\ Len(output.df.rows) = Len(input[1].rows)
              /\ \A k \in Index(input[1]) :
                   output.df.rows[k][i] = Cell(input[1], k, FirstAlias(input[1], f))

\* a field with two aliases present, the later one first in the file and holding
\* other data, was standardized from the first alias
C8_Witness ==
  /\ StdApplied
  /\ Len(input[1].rows) > 0
  /\ \E f \in FieldsPresent(input[1]) :
       \E later \in 1..Len(column_mappings[f].aliases) :
         LET al == column_mappings[f].aliases[later]
             first == FirstAlias(input[1], f)
         IN /\ HasCol(input[1], al)
            /\ al # first
            /\ ColIndex(input[1], al) < ColIndex(input[1], first)
            /\ \E k \in Index(input[1]) :
                 /\ Cell(input[1], k, al) # Cell(input[1], k, first)
                 /\ \E i \in ColumnPositions(output.df, column_mappings[f].std) :
                      output.df.rows[k][i] = Cell(input[1], k, first)

\* the claim C9 as stated: the output has only canonical column names and as
\* many rows as the input
C9_Original ==
  StdApplied =>
    /\ \A i \in 1..Len(output.df.cols) : output.df.cols[i] \in CanonicalNames
    /\ Len(output.df.rows) = Len(input[1].rows)

\* C9 (amended): when the input has an alias column, or no rows, the output
\* has only canonical column names, one per field with an alias present (none
\* for an input without rows), and as many rows as the input; when the input
\* has rows but no alias column at all, the output is the input's header with
\* zero rows, its unknown columns kept.
C9_OnlyCanonicalUnlessNoAlias ==
  StdApplied =>
    /\ ~output.raised
    /\ (FieldsPresent(input[1]) # {} \/ Len(input[1].rows) = 0) =>
         /\ \A i \in 1..Len(output.df.cols) : output.df.cols[i] \in CanonicalNames
         /\ Len(output.df.rows) = Len(input[1].rows)
         /\ Len(output.df.cols) =
              IF Len(input[1].rows) = 0 THEN 0
              ELSE Cardinality(FieldsPresent(input[1]))
    /\ (FieldsPresent(input[1]) = {} /\ Len(input[1].rows) > 0) =>
         output.df = Head0(input[1])

\* unknown columns and a non-first alias were dropped from a frame with rows
C9_Witness ==
  /\ StdApplied
  /\ Len(input[1].rows) = MaxStdRows
  /\ HasCol(input[1], "Zip")
  /\ Len(output.df.cols) > 0
  /\ Len(output.df.cols) + 2 <= Len(input[1].cols)
  /\ \A i \in 1..Len(output.df.cols) : output.df.cols[i] \in CanonicalNames
  /\ Len(output.df.rows) = MaxStdRows


---------------------------------------------------------------------------
(* The payment comparison applied to sample frames of up to MaxCodes codes *)

MaxCodes == 22

PayCols ==
  <<"HCPCS_Cd", "HCPCS_Desc", "Tot_Srvcs", "Avg_Mdcr_Alowd_Amt", "Avg_Mdcr_Pymt_Amt">>

\* the volume of code c among n codes, in four arrangements: growing with the
\* code, falling with it, equal for all codes, and mixed with ties
SampleVolume(arrangement, c, n) ==
  CASE arrangement = 1 -> c
    [] arrangement = 2 -> n - c
    [] arrangement = 3 -> 1
    [] OTHER -> (c * 7) % 5

\* one row per code 1..n
CodeRows(arrangement, n) ==
  [c \in 1..n |-> <<c, T_a, SampleVolume(arrangement, c, n), 1 + (c % 2), 1>>]

\* the rows a second row of some code (or the row of one more code) may add
ExtraRows(n) ==
  {<<>>} \cup
  { << <<e, desc, w, 3, 2>> >> :
      e \in {1, n, n + 1}, desc \in {T_a, T_b, NaN}, w \in {0, TopN} }

\* df without column col
DropColumn(df, col) ==
  LET keep == SelectSeq([i \in 1..Len(df.cols) |-> i], LAMBDA i : df.cols[i] # col)
  IN [cols |-> [i \in 1..Len(keep) |-> df.cols[keep[i]]],
      rows |-> [k \in Index(df) |-> [i \in 1..Len(keep) |-> df.rows[k][keep[i]]]]]

\* the baselines tried with a target population cc: cc itself, cc and a row of
\* a code of its own, the rows of cc with an even code, and no row at all
Baselines(cc) ==
  { cc,
    [cols |-> cc.cols, rows |-> Append(cc.rows, <<0, T_a, 1, 1, 1>>)],
    [cols |-> cc.cols, rows |-> SelectSeq(cc.rows, LAMBDA r : r[1] % 2 = 0)],
    Head0(cc) }

InitPay ==
  /\ op = "init"
  /\ output = Returned(EmptyFrame)
  /\ \/ \E n \in (0..2) \cup ((TopN - 1)..MaxCodes), arrangement \in 1..4 :
          \E extra \in ExtraRows(n) :
             LET cc == [cols |-> PayCols, rows |-> CodeRows(arrangement, n) \o extra]
             IN \E ny \in Baselines(cc) : input = <<cc, ny>>
     \/ \E n \in 1..2, i \in 1..Len(PayCols), both \in BOOLEAN :
          LET full == [cols |-> PayCols, rows |-> CodeRows(1, n)]
              cut  == DropColumn(full, PayCols[i])
          IN input = <<cut, IF both THEN cut ELSE full>>
  /\ NoFileSystem

ApplyPaymentComparison ==
  /\ op = "init"
  /\ op' = "get_payment_comparison"
  /\ output' = get_payment_comparison(input[1], input[2])
  /\ UNCHANGED <<input, fsVars>>

NextPay == ApplyPaymentComparison

SpecPay == InitPay /\ [][NextPay]_vars

---------------------------------------------------------------------------
(* Claims about the payment comparison, under SpecPay *)

PayApplied == op = "get_payment_comparison"

\* the distinct service codes of a payment comparison
ComparedCodes(cmp) == {cmp.rows[k][1] : k \in 1..Len(cmp.rows)}

\* the summed service volume of each code of the target population
SummedVolume(cc) ==
  Table([code \in ServiceCodes(cc) |-> SumOver(cc, "Tot_Srvcs", RowsOfCode(cc, code))])

\* the codes among the TopN of largest summed volume: fewer than TopN codes
\* have a larger one
TheLargest(cc) ==
  LET volume == SummedVolume(cc)
  IN {code \in ServiceCodes(cc) :
        Cardinality({d \in ServiceCodes(cc) : volume[d] > volume[code]}) < TopN}

\* C10: the payment comparison output has at most 20 distinct service codes,
\* each of them among the 20 codes of largest summed service volume in the
\* target population (all codes when there are fewer than 20).
C10_ComparisonWithinTop20 ==
  (PayApplied /\ ~output.raised) =>
     /\ Cardinality(ComparedCodes(output.df)) <= TopN
     /\ LET largest == TheLargest(input[1])
        IN \A code \in ComparedCodes(output.df) : code \in largest

\* more than 20 codes went in, 20 came out, and a code of smaller volume that
\* the baseline has too was left out
C10_Witness ==
  /\ PayApplied /\ ~output.raised
  /\ Cardinality(ServiceCodes(input[1])) > TopN
  /\ Cardinality(ComparedCodes(output.df)) = TopN
  /\ \E code \in ServiceCodes(input[1]) \cap ServiceCodes(input[2]) :
       /\ code \notin ComparedCodes(output.df)
       /\ code \notin TheLargest(input[1])

---------------------------------------------------------------------------
(* The fetch stage on a data directory: downloads, runs, and the user who  *)
(* places or removes files between them                                    *)

MaxCalls == 4

MaxClock == 1

\* data_dir: 'data' as in __main__, an absolute path, or '.'
BaseDirs == {Rel(<<"data">>), Abs(<<"srv", "data">>), Rel(<<>>)}

\* the calls load_provider_data and load_service_data make (lines 93-94, 104-105)
DownloadCalls ==
  { <<provider_dataset_url, StrPath(provider_file)>>,
    <<latest_dataset_url, StrPath(service_file)>> }

Init ==
  /\ op = "init"
  /\ input = <<>>
  /\ output = [raised |-> FALSE]
  /\ base_dir \in BaseDirs
  /\ files = <<>>
  /\ results = <<>>
  /\ requests = 0
  /\ clock = 0
  /\ last = Step(NoDownload, 0)
  /\ calls = 0

\* what the server answered in a step that issued a request: the kind of
\* the response, "none" for a step that asked nothing
Answer(before, after, response) ==
  IF after = before THEN "none" ELSE response.kind

\* download_file(url, local_filename)
DownloadFile ==
  /\ calls < MaxCalls
  /\ \E call \in DownloadCalls : \E response \in Responses(call[1]) :
       LET d == download_file(files, requests, base_dir, call[1], call[2], response)
       IN /\ op' = "download_file"
          /\ input' = [call |-> call,
                        response |-> Answer(requests, d.requests, response)]
          /\ output' = [raised |-> d.raised, path |-> d.path]
          /\ files' = d.files
          /\ requests' = d.requests
          /\ last' = Step(DownloadTo(d.path), 0)
  /\ calls' = calls + 1
  /\ UNCHANGED <<base_dir, results, clock>>

\* run_analysis(), the clock reading now at its line 681
RunAnalysis ==
  /\ calls < MaxCalls
  /\ \E response \in Responses(provider_dataset_url) :
     \E now \in {t \in {clock, clock + 1} : t <= MaxClock} :
     \E r \in {run_analysis(files, requests, base_dir, results, response, now)} :
          /\ op' = "run_analysis"
          /\ input' = [response |-> Answer(requests, r.requests, response)]
          /\ output' = [raised |-> r.raised, items |-> r.items]
          /\ files' = r.files
          /\ requests' = r.requests
          /\ results' = r.results
          /\ last' = Step(r.download, IF r.raised THEN 0 ELSE last.runs + 1)
          /\ clock' = now
  /\ calls' = calls + 1
  /\ UNCHANGED base_dir

\* the user puts a provider-service file into the data directory
PlaceServiceFile ==
  /\ calls < MaxCalls
  /\ \E df \in ServiceFrames :
       files' = WriteFile(files, Join(base_dir, StrPath(provider_service_file)), df)
  /\ files' # files
  /\ op' = "place"
  /\ input' = <<>>
  /\ output' = [raised |-> FALSE]
  /\ last' = Step(NoDownload, 0)
  /\ calls' = calls + 1
  /\ UNCHANGED <<base_dir, results, requests, clock>>

\* the user removes a file from the data directory
RemoveFile ==
  /\ calls < MaxCalls
  /\ \E p \in DOMAIN files : files' = [q \in DOMAIN files \ {p} |-> files[q]]
  /\ op' = "remove"
  /\ input' = <<>>
  /\ output' = [raised |-> FALSE]
  /\ last' = Step(NoDownload, 0)
  /\ calls' = calls + 1
  /\ UNCHANGED <<base_dir, results, requests, clock>>

Next == DownloadFile \/ RunAnalysis \/ PlaceServiceFile \/ RemoveFile

Spec == Init /\ [][Next]_vars

---------------------------------------------------------------------------
(* Claims about the download cache and the run *)

ProviderPath == Join(base_dir, StrPath(provider_file))

ProviderServicePath == Join(base_dir, StrPath(provider_service_file))

ServicePath == Join(base_dir, StrPath(service_file))

\* the table files of a results directory: every file but the run summary
TableFiles(dir) == [f \in DOMAIN dir \ {summary_file} |-> dir[f]]

\* C1: download_file issues a request only if no file exists at
\* base_dir / local_filename; if one exists, whatever it holds, the call
\* returns that path, issues no request and leaves every file as it was.
C1_CachedByPresenceAlone ==
  [][ last'.called =>
        /\ requests' # requests => ~Exists(files, last'.target)
        /\ Exists(files, last'.target) =>
             /\ requests' = requests
             /\ files' = files
             /\ op' = "download_file" =>
                  output' = [raised |-> FALSE, path |-> last'.target] ]_vars

\* a call that returned the path of a cached file of no bytes, the residue
\* of a broken download
C1_Witness ==
  /\ op = "download_file"
  /\ ~output.raised
  /\ Exists(files, output.path)
  /\ files[output.path] = EmptyFrame
  /\ requests > 0

\* C2: of two consecutive runs, the first of which completed (or failed on
\* a file it found cached), the second issues no request, changes no file
\* of the data directory, ends as the first did and leaves every table file
\* of the results directory exactly as the first left it.
C2_SecondRunIdentical ==
  [][ (/\ op = "run_analysis"
       /\ op' = "run_analysis"
       /\ ~output.raised \/ ~last.called)
        => /\ requests' = requests
           /\ files' = files
           /\ output' = output
           /\ TableFiles(results') = TableFiles(results) ]_vars

\* two completed runs in a row, the later one in the second after the
\* first download, with table files in the results directory
C2_Witness ==
  /\ op = "run_analysis"
  /\ ~output.raised
  /\ last.runs >= 2
  /\ requests = 1
  /\ clock = 1
  /\ TableFiles(results) # <<>>

\* C3 as stated: after a completed run both source files exist in the data
\* directory.
C3_Original ==
  (op = "run_analysis" /\ ~output.raised)
    => /\ Exists(files, ProviderPath)
       /\ Exists(files, ProviderServicePath) \/ Exists(files, ServicePath)

\* C3: after a completed run the one source file the run read exists: the
\* provider-service file if it was there at the start, and then nothing is
\* downloaded; otherwise the provider file, reused if it was there at the
\* start and downloaded with one request if it was not.
C3_TheFileReadExists ==
  [][ (op' = "run_analysis" /\ calls' = calls + 1 /\ ~output'.raised)
        => IF Exists(files, ProviderServicePath)
           THEN files' = files /\ requests' = requests
           ELSE /\ Exists(files', ProviderPath)
                /\ IF Exists(files, ProviderPath)
                   THEN files' = files /\ requests' = requests
                   ELSE /\ requests' = requests + 1
                        /\ last'.called
                        /\ files' = WriteFile(files, ProviderPath, files'[ProviderPath]) ]_vars

\* a completed run that downloaded the provider file and has no
\* provider-service file beside it
C3_Witness ==
  /\ op = "run_analysis"
  /\ ~output.raised
  /\ last.called
  /\ Exists(files, ProviderPath)
  /\ ~Exists(files, ProviderServicePath)
  /\ ~Exists(files, ServicePath)

---------------------------------------------------------------------------
(* Every operation of the fetch stage applied to a table without rows, and *)
(* to the table of the same columns with one row                           *)

MaxDropped == 1

StandardCols ==
  <<"provider_id", "provider_last_name", "provider_first_name", "provider_type",
    "total_services", "avg_medicare_payment_amount">>

\* a cell of a one-row table: a row of the population
SampleCell(col) ==
  CASE col \in NumericCols -> 1
    [] col = "Rndrng_Prvdr_State_Abrvtn" -> T_NY
    [] col = "Rndrng_Prvdr_City" -> T_Albany
    [] col \in {"Rndrng_Prvdr_Type", "provider_type"} -> T_Cardio
    [] OTHER -> T_a

\* the sub-sequences of cols that leave out at most n columns
ColumnsLeft(cols, n) ==
  {SelectSeq(cols, LAMBDA c : c \notin gone) :
     gone \in {g \in SUBSET {cols[i] : i \in 1..Len(cols)} : Cardinality(g) <= n}}

EmptyInputCols ==
  ColumnsLeft(ServiceCols, MaxDropped) \cup ColumnsLeft(ProviderCols, MaxDropped)
    \cup ColumnsLeft(StandardCols, MaxDropped) \cup {<<>>}

OneRow(cols) ==
  IF cols = <<>> THEN EmptyFrame
  ELSE [cols |-> cols, rows |-> << [i \in 1..Len(cols) |-> SampleCell(cols[i])] >>]

Operations ==
  {"filter_upstate_ny_providers", "find_community_care_providers",
   "analyze_provider_metrics", "get_specialty_distribution",
   "get_payment_statistics", "get_service_volume_by_provider",
   "get_top_services", "get_specialty_distribution_from_services",
   "get_payment_comparison", "get_provider_metrics", "get_quality_metrics"}

\* the operations that hand their input on: the others build a new table
RowSelecting == {"filter_upstate_ny_providers", "find_community_care_providers"}

\* the call of the named operation on df (the payment comparison of df
\* against itself); payment statistics are a dict, kept under stats
Applied(name, df) ==
  CASE name = "filter_upstate_ny_providers" -> filter_upstate_ny_providers(df)
    [] name = "find_community_care_providers" -> find_community_care_providers(df)
    [] name = "analyze_provider_metrics" -> analyze_provider_metrics(df)
    [] name = "get_specialty_distribution" -> get_specialty_distribution(df)
    [] name = "get_payment_statistics" ->
         [raised |-> FALSE, df |-> EmptyFrame, stats |-> get_payment_statistics(df)]
    [] name = "get_service_volume_by_provider" -> get_service_volume_by_provider(df)
    [] name = "get_top_services" -> get_top_services(df)
    [] name = "get_specialty_distribution_from_services" ->
         get_specialty_distribution_from_services(df)
    [] name = "get_payment_comparison" -> get_payment_comparison(df, df)
    [] name = "get_provider_metrics" -> get_provider_metrics(df)
    [] name = "get_quality_metrics" -> get_quality_metrics(df)

InitEmpty ==
  /\ op = "init"
  /\ \E cols \in EmptyInputCols :
       input = << [cols |-> cols, rows |-> <<>>], OneRow(cols) >>
  /\ output = <<>>
  /\ NoFileSystem

ApplyToEmpty ==
  /\ op = "init"
  /\ \E name \in Operations :
       /\ op' = name
       /\ output' = << Applied(name, input[1]), Applied(name, input[2]) >>
  /\ UNCHANGED <<input, fsVars>>

NextEmpty == ApplyToEmpty

SpecEmpty == InitEmpty /\ [][NextEmpty]_vars

EmptyApplied == op \in Operations

\* the operation returned a table with rows on the one-row twin
TwinHasRows ==
  /\ ~output[2].raised
  /\ op # "get_payment_statistics"
  /\ Len(output[2].df.rows) > 0
  /\ Len(output[2].df.cols) > 0

---------------------------------------------------------------------------
(* The aggregates of the provider-service file applied to sample tables     *)
(* with rows, one of the columns they use left out                          *)

\* the columns the five aggregates name
UsedCols ==
  <<"Rndrng_NPI", "Rndrng_Prvdr_Last_Org_Name", "Rndrng_Prvdr_Type", "HCPCS_Cd",
    "HCPCS_Desc", "Tot_Srvcs", "Avg_Mdcr_Alowd_Amt", "Avg_Mdcr_Pymt_Amt">>

ServiceAggregates ==
  {"get_top_services", "get_specialty_distribution_from_services",
   "get_payment_comparison", "get_provider_metrics", "get_quality_metrics"}

InitMissing ==
  /\ op = "init"
  /\ \E full \in ServiceFrames, i \in 1..Len(UsedCols) :
       input = [df |-> DropColumn(full, UsedCols[i]), missing |-> UsedCols[i]]
  /\ output = Returned(EmptyFrame)
  /\ NoFileSystem

ApplyAggregate ==
  /\ op = "init"
  /\ \E name \in ServiceAggregates :
       /\ op' = name
       /\ output' = Applied(name, input.df)
  /\ UNCHANGED <<input, fsVars>>

NextMissing == ApplyAggregate

SpecMissing == InitMissing /\ [][NextMissing]_vars

AggregateApplied == op \in ServiceAggregates

\* C12 as stated: on a table with rows in which one of the columns the
\* aggregates use is missing, each provider-service aggregate returns (an
\* empty or partial table) and does not raise.
C12_Original ==
  (AggregateApplied /\ Len(input.df.rows) > 0) => ~output.raised

---------------------------------------------------------------------------
(* analyze_provider_service_data applied to sample tables: the population   *)
(* its aggregates are computed on                                           *)

MaxBroadRows == 2

BroadCols ==
  { <<"Rndrng_Prvdr_State_Abrvtn", "Rndrng_Prvdr_City", "Rndrng_Prvdr_Type">>,
    <<"Rndrng_Prvdr_State_Abrvtn", "Rndrng_Prvdr_City">>,
    <<"Rndrng_Prvdr_State_Abrvtn", "Rndrng_Prvdr_Type">>,
    <<"Rndrng_Prvdr_City", "Specialty">>,
    <<"Rndrng_Prvdr_State_Abrvtn", "City", "Rndrng_Prvdr_Type">>,
    <<"State", "Rndrng_Prvdr_City", "Rndrng_Prvdr_Type">> }

\* Albany is a city of both lists, Malta of the list of the strict match only;
\* family practice is a specialty of both lists, cardiology of the strict one
BroadValues ==
  [col \in UNION {{cols[i] : i \in 1..Len(cols)} : cols \in BroadCols} |->
     CASE col \in {"Rndrng_Prvdr_State_Abrvtn", "State"} -> {T_NY, T_CA}
       [] col \in {"Rndrng_Prvdr_City", "City"} -> {T_Albany, T_Malta, T_Buffalo}
       [] OTHER -> {T_Family, T_Cardio, T_Derma}]

\* df with a provider identifier, the position of the row, and one service
\* code in two more columns
WithProviderAndCode(df) ==
  [cols |-> df.cols \o <<"Rndrng_NPI", "HCPCS_Cd">>,
   rows |-> [k \in Index(df) |-> df.rows[k] \o <<k, 7>>]]

InitBroad ==
  /\ op = "init"
  /\ output = <<>>
  /\ \E cols \in BroadCols :
       \E df \in FramesOver(cols, BroadValues, MaxBroadRows) :
          input = WithProviderAndCode(df)
  /\ NoFileSystem

\* lines 405-469: the state-level rows, the strict match on them, the
\* population the aggregates are computed on, and the results
AnalyzeProviderServiceData ==
  /\ op = "init"
  /\ op' = "analyze_provider_service_data"
  /\ \E ny_providers \in {state_level_rows(input)} :
       output' = [ny_providers |-> ny_providers,
                  strict       |-> find_community_care_providers(ny_providers).df,
                  community_care_providers |-> service_population(ny_providers),
                  analysis     |-> analyze_provider_service_data(input)]
  /\ UNCHANGED <<input, fsVars>>

NextBroad == AnalyzeProviderServiceData

SpecBroad == InitBroad /\ [][NextBroad]_vars

---------------------------------------------------------------------------
(* Claims about the broadened match, under SpecBroad *)

BroadApplied == op = "analyze_provider_service_data"

\* the rows of df of the fixed state, every row when df has no state column
RowsOfTheState(df) ==
  IF HasCol(df, state_abrvtn_col)
  THEN RowsAt(df, {k \in Index(df) : Cell(df, k, state_abrvtn_col) = ny_state_code}, 1)
  ELSE df.rows

\* the text of the row at position k in one of the columns, upper-cased,
\* contains one of the alternatives
SomeColumnContains(df, k, columns, alternatives) ==
  \E i \in 1..Len(columns) :
     /\ HasCol(df, columns[i])
     /\ Cell(df, k, columns[i]) # NaN
     /\ \E a \in 1..Len(alternatives) :
          Contains(Upper(Cell(df, k, columns[i])), alternatives[a])

\* the city of the row contains a listed fallback city
InFallbackCity(df, k) ==
  SomeColumnContains(df, k, <<"Rndrng_Prvdr_City">>, broad_upstate_cities)

\* the specialty of the row, in any specialty column the match knows,
\* contains a listed primary-care keyword
HasPrimaryCareSpecialty(df, k) ==
  SomeColumnContains(df, k, specialty_cols, broad_common_specialties)

\* the specialty of the row in the column Rndrng_Prvdr_Type contains a listed
\* primary-care keyword
HasPrimaryCareType(df, k) ==
  SomeColumnContains(df, k, <<"Rndrng_Prvdr_Type">>, broad_common_specialties)

\* the aggregates were computed on the population, against the state-level rows
AggregatesOfThePopulation ==
  LET aggregates == service_aggregates(output.community_care_providers,
                                       output.ny_providers)
  IN /\ output.ny_providers.rows = RowsOfTheState(input)
     /\ ~output.analysis.raised
     /\ \A i \in 1..Len(aggregates) :
          output.analysis.items[i].value = aggregates[i].df

\* C13 as stated: the broadened match is applied exactly when the strict
\* match yields zero rows; it then selects the state-level rows whose city
\* contains a listed fallback city and whose specialty contains a listed
\* primary-care keyword; the strict result is used unchanged whenever it has
\* at least one row.
C13_Original ==
  BroadApplied =>
    /\ AggregatesOfThePopulation
    /\ Len(output.strict.rows) > 0 => output.community_care_providers = output.strict
    /\ Len(output.strict.rows) = 0 =>
         LET ny == output.ny_providers
         IN output.community_care_providers.rows =
              RowsAt(ny, {k \in Index(ny) : InFallbackCity(ny, k)
                                               /\ HasPrimaryCareSpecialty(ny, k)}, 1)

\* C13: the broadened match is applied exactly when the strict match yields
\* zero rows, and the strict result is used unchanged whenever it has at least
\* one row.  The broadened match looks at the columns Rndrng_Prvdr_City and
\* Rndrng_Prvdr_Type alone: without the city column it selects no row; with
\* both columns it selects the state-level rows whose city contains a listed
\* fallback city and whose specialty contains a listed primary-care keyword;
\* without the column Rndrng_Prvdr_Type it selects every state-level row whose
\* city contains a listed fallback city, whatever its specialty.
C13_BroadenedWhenStrictEmpty ==
  BroadApplied =>
    /\ AggregatesOfThePopulation
    /\ output.community_care_providers.cols = output.ny_providers.cols
    /\ Len(output.strict.rows) > 0 => output.community_care_providers = output.strict
    /\ Len(output.strict.rows) = 0 =>
         LET ny == output.ny_providers
         IN output.community_care_providers.rows =
              RowsAt(ny,
                     {k \in Index(ny) :
                        /\ InFallbackCity(ny, k)
                        /\ HasCol(ny, "Rndrng_Prvdr_Type") => HasPrimaryCareType(ny, k)},
                     1)

\* the strict match found nothing in a table whose specialty column is named
\* Specialty, and the broadened match selected the state-level row of a
\* fallback city, a dermatologist, leaving out the row of another city
C13_Witness ==
  /\ BroadApplied
  /\ Len(output.strict.rows) = 0
  /\ HasCol(input, "Specialty")
  /\ Len(output.ny_providers.rows) = 2
  /\ Len(output.community_care_providers.rows) = 1
  /\ LET ny == output.ny_providers
     IN \E k \in Index(ny) :
          /\ output.community_care_providers.rows[1] = ny.rows[k]
          /\ InFallbackCity(ny, k)
          /\ ~HasPrimaryCareSpecialty(ny, k)

---------------------------------------------------------------------------
(* Claims about failed downloads and the files of the results directory,    *)
(* under Spec                                                               *)

\* the request of the step failed: no connection, or an HTTP error status
RequestFailed ==
  /\ op \in {"download_file", "run_analysis"}
  /\ input.response \in {"unreachable", "http_error"}

\* C14: a download failure is fatal and never retried: a call of
\* download_file and a run issue at most one HTTP request, and when that
\* request fails (network error or HTTP error status) the error propagates,
\* the run aborts, and neither a summary table nor the run summary is written
\* (no file at all is).
C14_FailureIsFatal ==
  [][ /\ requests' <= requests + 1
      /\ RequestFailed' =>
           /\ requests' = requests + 1
           /\ output'.raised
           /\ results' = results
           /\ files' = files ]_vars

\* a run completed and wrote its files, the provider file was removed, and
\* the next run met an HTTP error: one request each, the files of the first
\* run still the only ones
C14_Witness ==
  /\ op = "run_analysis"
  /\ input.response = "http_error"
  /\ output.raised
  /\ requests = 2
  /\ summary_file \in DOMAIN results
  /\ ~Exists(files, ProviderPath)

\* the last step was a run that completed
RunCompleted == op = "run_analysis" /\ ~output.raised

\* the tables the completed run computed, by the file save_results names
\* for them
ComputedFor(f) ==
  {output.items[i].value :
     i \in {j \in 1..Len(output.items) :
              output.items[j].frame /\ result_file(output.items[j].name) = f}}

\* C15 as stated: after every completed run each summary table file present
\* in the results directory holds the table computed by that run; a table
\* file of an earlier run does not survive a run in which the table is empty
\* or is not produced.
C15_Original ==
  RunCompleted =>
    \A f \in DOMAIN TableFiles(results) : results[f] \in ComputedFor(f)

\* C16 as stated: every completed run, on either shape of raw file, writes
\* provider_metrics, specialty_distribution, top_services, payment_comparison,
\* quality_metrics and the run summary, so that every table file a following
\* visualize run reads is in the results directory.
C16_Original ==
  RunCompleted =>
    /\ summary_file \in DOMAIN results
    /\ \A i \in 1..Len(visualizer_tables) : visualizer_tables[i] \in DOMAIN results

---------------------------------------------------------------------------
(* The visualize stage on sample results directories: runs of the two       *)
(* visualizers, and runs of the fetch stage that write new tables           *)

MaxVizCalls == 3

\* how many of the charts may fail to serialize in one run
MaxFailing == 1

\* the positions (counted from 0) tried for a chart that fails to serialize
FailingPositions == {0, 3}

SerializationFailures ==
  {failing \in SUBSET FailingPositions : Cardinality(failing) <= MaxFailing}

VizServiceCols ==
  <<"Rndrng_NPI", "Rndrng_Prvdr_Last_Org_Name", "Rndrng_Prvdr_First_Name",
    "Rndrng_Prvdr_State_Abrvtn", "Rndrng_Prvdr_City", "Rndrng_Prvdr_Type",
    "HCPCS_Cd", "HCPCS_Desc", "Tot_Srvcs", "Tot_Benes", "Avg_Mdcr_Alowd_Amt",
    "Avg_Mdcr_Pymt_Amt">>

\* provider-service files with beneficiary counts: two providers of the
\* population, and the first of them alone
VizServices ==
  [cols |-> VizServiceCols,
   rows |-> << <<1, T_Acme, T_a, T_NY, T_Albany, T_Cardio, 7, T_a, 3, 2, 10, 8>>,
               <<1, T_Acme, T_a, T_NY, T_Albany, T_Cardio, 8, T_b, 2, 1, 20, 15>>,
               <<2, T_b, T_c, T_NY, T_Albany, T_Family, 7, T_a, 5, 4, 12, 9>> >>]

VizServicesOne ==
  [cols |-> VizServiceCols, rows |-> SubSeq(VizServices.rows, 1, 1)]

\* the results of the runs that write to the sample results directories
VizAnalyses ==
  Table([df \in {VizServices, VizServicesOne} |-> analyze_provider_service_data(df)])

VizRuns ==
  {VizAnalyses[df].items : df \in DOMAIN VizAnalyses}
    \cup {ProviderAnalyses[ProvidersMatching].items}

\* the results directory after a run on VizServices
FullResults == save_results(<<>>, VizAnalyses[VizServices].items, 0)

\* dir with the table file name holding its column names alone
WithoutRows(dir, name) ==
  [f \in DOMAIN dir |-> IF f = name THEN Head0(dir[f]) ELSE dir[f]]

\* dir with column col taken out of the table file name
WithoutColumn(dir, name, col) ==
  [f \in DOMAIN dir |-> IF f = name THEN DropColumn(dir[f], col) ELSE dir[f]]

\* dir with the description of the first row of top_services.csv left blank
WithBlankDescription(dir) ==
  [f \in DOMAIN dir |->
     IF f = "top_services.csv"
     THEN [cols |-> dir[f].cols,
           rows |-> [k \in Index(dir[f]) |->
                       IF k = 1
                       THEN [i \in 1..Len(dir[f].cols) |->
                               IF dir[f].cols[i] = "HCPCS Description" THEN NaN
                               ELSE dir[f].rows[k][i]]
                       ELSE dir[f].rows[k]]]
     ELSE dir[f]]

VizDirs ==
  {<<>>, FullResults, WithBlankDescription(FullResults),
   WithoutColumn(FullResults, "provider_metrics.csv", "Unique Services"),
   [f \in DOMAIN FullResults |-> IF f = summary_file THEN FullResults[f]
                                   ELSE Head0(FullResults[f])]}
    \cup {WithoutRows(FullResults, visualizer_tables[i]) :
            i \in 1..Len(visualizer_tables)}

InitViz ==
  /\ op = "init"
  /\ input = <<>>
  /\ output = <<>>
  /\ results \in VizDirs
  /\ base_dir = Rel(<<"data">>)
  /\ files = <<>>
  /\ requests = 0
  /\ clock = 0
  /\ last = Step(NoDownload, 0)
  /\ calls = 0

\* the report in the output directory, empty when there is none
Report(fs) == IF Exists(fs, report_path) THEN fs[report_path] ELSE <<>>

\* CMSDataVisualizer().create_visualizations(); the output keeps the report
\* the run found
CreateVisualizations ==
  /\ calls < MaxVizCalls
  /\ \E failing \in SerializationFailures :
     \E run \in {create_visualizations(files, results, failing)} :
        /\ op' = "create_visualizations"
        /\ input' = [failing |-> failing, draws_empty |-> TRUE]
        /\ output' = [raised |-> run.raised, written |-> run.written,
                      figures |-> run.figures, failed |-> run.failed,
                      previous |-> Report(files)]
        /\ files' = run.files
  /\ calls' = calls + 1
  /\ UNCHANGED <<base_dir, results, requests, clock, last>>

\* CMSVisualizer().create_report()
CreateReport ==
  /\ calls < MaxVizCalls
  /\ \E failing \in SerializationFailures, draws_empty \in BOOLEAN :
     \E run \in {create_report(files, results, failing, draws_empty)} :
        /\ op' = "create_report"
        /\ input' = [failing |-> failing, draws_empty |-> draws_empty]
        /\ output' = [raised |-> run.raised, written |-> run.written,
                      figures |-> run.figures, failed |-> run.failed,
                      previous |-> Report(files)]
        /\ files' = run.files
  /\ calls' = calls + 1
  /\ UNCHANGED <<base_dir, results, requests, clock, last>>

\* a completed run of the fetch stage saves its results
SaveResults ==
  /\ calls < MaxVizCalls
  /\ \E items \in VizRuns : results' = save_results(results, items, 0)
  /\ op' = "save_results"
  /\ input' = <<>>
  /\ output' = <<>>
  /\ calls' = calls + 1
  /\ UNCHANGED <<base_dir, files, requests, clock, last>>

NextViz == CreateVisualizations \/ CreateReport \/ SaveResults

SpecViz == InitViz /\ [][NextViz]_vars

---------------------------------------------------------------------------
(* Claims about the visualize stage, under SpecViz *)

Visualizers == {"create_visualizations", "create_report"}

VizApplied == op \in Visualizers

\* the table files the visualizer of the last step reads
TablesRead ==
  IF op = "create_visualizations"
  THEN {visualizer_tables[i] : i \in 1..Len(visualizer_tables)}
  ELSE {simple_tables[i] : i \in 1..Len(simple_tables)} \cup {"quality_metrics.csv"}

\* the results directory holds every table with the columns a run of the
\* fetch stage gives it, and at least one of the tables read has no rows
SomeTableWithoutRows ==
  /\ DOMAIN results = DOMAIN FullResults
  /\ \A f \in DOMAIN results : results[f].cols = FullResults[f].cols
  /\ \E f \in TablesRead : Len(results[f].rows) = 0

\* the plot fragments of a report
Plots(report) ==
  {report[k] : k \in {j \in 1..Len(report) : report[j].kind = "plot"}}

\* the positions of the charts a report has a fragment of
ChartsWithFragments(report) ==
  {report[k].chart :
     k \in {j \in 1..Len(report) : report[j].kind \in {"open", "plot", "close", "insight"}}}

\* C17 as stated: a chart constructor given a table without rows yields no
\* chart and does not raise, and the report is assembled from the other
\* charts (no serialization fails, and plotly express draws a table without
\* rows as an empty chart).
C17_Original ==
  (VizApplied /\ SomeTableWithoutRows /\ input.failing = {} /\ input.draws_empty) =>
     /\ ~output.raised
     /\ output.written
     /\ \A j \in 1..Len(output.figures) :
          output.figures[j] # None =>
            /\ Len(output.figures[j].data.rows) > 0
            /\ Plot(j - 1, output.figures[j]) \in Plots(Report(files))

\* C18 as stated: when the construction or the serialization of one chart
\* fails, the run still reaches the final write, and the report holds the
\* header, the plot of every other chart built, and no fragment of the chart
\* that failed.
C18_Original ==
  (VizApplied /\ Cardinality(output.failed) = 1) =>
     /\ output.written
     /\ Len(Report(files)) > 0
     /\ Report(files)[1].kind = "header"
     /\ \A j \in 1..Len(output.figures) :
          (output.figures[j] # None /\ (j - 1) \notin output.failed) =>
             Plot(j - 1, output.figures[j]) \in Plots(Report(files))
     /\ ChartsWithFragments(Report(files)) \cap output.failed = {}

\* the report is one document of this run: it opens with the header of the
\* numbers of the provider table read, closes with the footer, has no other
\* header or footer, and every plot in it is a figure this run built
ThisRunsDocument(report, dir, figures) ==
  /\ Len(report) >= 2
  /\ report[1].kind = "header"
  /\ report[1].of.total_providers = Len(dir["provider_metrics.csv"].rows)
  /\ report[1].of.services = Column(dir["provider_metrics.csv"], "Total Services")
  /\ report[Len(report)] = Footer
  /\ \A k \in 2..(Len(report) - 1) : report[k].kind \notin {"header", "footer"}
  /\ \A k, h \in 1..Len(report) :
       (report[k].kind = "plot" /\ report[h].kind = "plot" /\ k # h)
         => report[k].chart # report[h].chart
  /\ \A plot \in Plots(report) : plot.fig = figures[plot.chart + 1]

\* C19: a visualize run that reaches the final step writes the whole
\* document to the one path cms_analysis.html under the output directory,
\* replacing what was there: after the run the file holds this run's header,
\* summary statistics and charts and nothing of an earlier report.
C19_ReportReplaced ==
  [][ (op' \in Visualizers /\ output'.written) =>
        /\ Exists(files', report_path)
        /\ ThisRunsDocument(files'[report_path], results, output'.figures)
        /\ \A q \in DOMAIN files' \ {report_path, heatmap_path} :
             q \in DOMAIN files /\ files'[q] = files[q] ]_vars

\* a report of two providers was in place, a later run of the fetch stage
\* wrote tables of other content, and the next visualize run left a report
\* that differs from the earlier one and is a document of its own
C19_Witness ==
  /\ VizApplied
  /\ output.written
  /\ Len(output.previous) > 0
  /\ output.previous # Report(files)
  /\ output.previous[1].of.total_providers = 2
  /\ Report(files)[1].of.total_providers = 1
  /\ Plots(Report(files)) # {}

---------------------------------------------------------------------------
(* get_service_volume_by_provider applied to every sample table *)

MaxVolumeRows == 3

VolumeCols ==
  <<"provider_last_name", "provider_first_name", "provider_type", "total_services">>

\* the rows of the sample tables: an organisation has no first name
VolumeRows ==
  {<<family, given, specialty, services>> :
     family \in {T_a, T_b}, given \in {T_a, NaN},
     specialty \in {T_c, T_Cardio}, services \in 1..2}

InitVolume ==
  /\ op = "init"
  /\ output = Returned(EmptyFrame)
  /\ \E n \in 0..MaxVolumeRows, dropped \in 0..Len(VolumeCols) :
       \E rows \in [1..n -> VolumeRows] :
          LET full == [cols |-> VolumeCols, rows |-> rows]
          IN input = IF dropped = 0 THEN full
                     ELSE DropColumn(full, VolumeCols[dropped])
  /\ NoFileSystem

ApplyVolume ==
  /\ op = "init"
  /\ op' = "get_service_volume_by_provider"
  /\ output' = get_service_volume_by_provider(input)
  /\ UNCHANGED <<input, fsVars>>

NextVolume == ApplyVolume

SpecVolume == InitVolume /\ [][NextVolume]_vars

VolumeApplied == op = "get_service_volume_by_provider"

\* the name and specialty columns
ProviderKey == SubSeq(VolumeCols, 1, 3)

\* the (last name, first name, specialty) combinations occurring in df
Combinations(df) == {KeyOf(df, ProviderKey, k) : k \in Index(df)}

\* the rows of out are the combinations of df, one row each, every row with
\* the sum of total_services over the rows of its combination, in the order
\* of non-increasing sum
VolumeByCombination(df, out) ==
  /\ Len(out.rows) = Cardinality(Combinations(df))
  /\ {SubSeq(out.rows[i], 1, 3) : i \in 1..Len(out.rows)} = Combinations(df)
  /\ \A i \in 1..Len(out.rows) :
       out.rows[i][4] =
          SumOver(df, "total_services", GroupRows(df, ProviderKey, SubSeq(out.rows[i], 1, 3)))
  /\ \A i \in 1..(Len(out.rows) - 1) : out.rows[i][4] >= out.rows[i + 1][4]

\* the table has no missing name or specialty
NoMissingKey(df) ==
  \A k \in Index(df) : \A i \in 1..3 : df.rows[k][i] # NaN

\* C20 as stated: for a table with the name, specialty and total_services
\* columns, get_service_volume_by_provider returns one row per
\* (last name, first name, specialty) combination occurring in the input,
\* with the sum of total_services over the rows of the combination, the rows
\* in the order of non-increasing sum.
C20_Original ==
  (VolumeApplied /\ input.cols = VolumeCols) =>
     /\ ~output.raised
     /\ VolumeByCombination(input, output.df)

---------------------------------------------------------------------------
(* get_provider_metrics applied to every sample table *)

MaxMetricRows == 3

MetricCols ==
  <<"Rndrng_NPI", "Rndrng_Prvdr_Last_Org_Name", "Rndrng_Prvdr_Type", "HCPCS_Cd",
    "Tot_Srvcs">>

\* the rows of the sample tables: two identifiers, each under one name and
\* with one of two specialty values
MetricRows ==
  {<<npi, T_a, specialty, code, services>> :
     npi \in 1..2, specialty \in {T_c, T_Cardio}, code \in 7..8, services \in 1..2}

InitMetrics ==
  /\ op = "init"
  /\ output = Returned(EmptyFrame)
  /\ \E n \in 0..MaxMetricRows : \E rows \in [1..n -> MetricRows] :
       input = [cols |-> MetricCols, rows |-> rows]
  /\ NoFileSystem

ApplyMetrics ==
  /\ op = "init"
  /\ op' = "get_provider_metrics"
  /\ output' = get_provider_metrics(input)
  /\ UNCHANGED <<input, fsVars>>

NextMetrics == ApplyMetrics

SpecMetrics == InitMetrics /\ [][NextMetrics]_vars

MetricsApplied == op = "get_provider_metrics"

\* the grouping columns of a sample table (line 569)
MetricKey == SubSeq(MetricCols, 1, 3)

\* some identifier of df occurs with more than one specialty value
SharedIdentifier(df) ==
  \E k, j \in Index(df) :
     /\ Cell(df, k, "Rndrng_NPI") = Cell(df, j, "Rndrng_NPI")
     /\ Cell(df, k, "Rndrng_Prvdr_Type") # Cell(df, j, "Rndrng_Prvdr_Type")

\* out has one row per grouping key of df, and the last cell of a row is the
\* number of distinct service codes of the rows of its own group
OneRowPerKey(df, out) ==
  /\ Len(out.rows) = Cardinality(GroupKeys(df, MetricKey))
  /\ {SubSeq(out.rows[i], 1, 3) : i \in 1..Len(out.rows)} = GroupKeys(df, MetricKey)
  /\ \A i \in 1..Len(out.rows) :
       out.rows[i][Len(out.cols)] =
          NUnique(df, "HCPCS_Cd", GroupRows(df, MetricKey, SubSeq(out.rows[i], 1, 3)))

\* C21 as stated: the provider metrics table has exactly one row per grouping
\* key, also when an identifier occurs with more than one specialty value,
\* and the unique-service count of a row is the count of the row's own group.
C21_Original ==
  (MetricsApplied /\ Len(input.rows) > 0) =>
     /\ ~output.raised
     /\ OneRowPerKey(input, output.df)

---------------------------------------------------------------------------
(* Claims about the cache of the fetch stage, under Spec *)

\* the run of the last step downloaded the provider file and the server sent
\* the whole body: neither the provider-service file nor the provider file
\* was in the data directory
ColdRunServed == op = "run_analysis" /\ input.response = "ok"

\* C22 as stated: on a cold cache the path the fetch stage writes the
\* downloaded provider file to is the path it then reads, so a run whose
\* download succeeds reaches the load step and does not fail on a missing
\* file.
C22_Original ==
  ColdRunServed =>
     /\ last.called
     /\ last.target = ProviderPath
     /\ Exists(files, ProviderPath)
     /\ ~output.raised

\* the download of the last step failed by an error status or while the
\* body was streamed to disk
DownloadFailed ==
  /\ op \in {"download_file", "run_analysis"}
  /\ input.response \in {"http_error", "broken"}

\* C23 as stated: a download that fails, by an HTTP error status or by an
\* error while the body is streamed to disk, leaves no file at the cache
\* path, so a file is at a cache path only if a download to it ran to
\* completion.
C23_Original ==
  [][ DownloadFailed' => ~Exists(files', last'.target) ]_vars

---------------------------------------------------------------------------
(* Claims about the rows the summary tables are computed of *)

\* some summary table of the analysis has a row
SomeSummaryHasRows(analysis) ==
  /\ ~analysis.raised
  /\ \E i \in 1..Len(analysis.items) :
       analysis.items[i].frame /\ Len(analysis.items[i].value.rows) > 0

\* df has a state column, the first of possible_state_cols present, and every
\* row of df has the fixed state code in it
AllOfTheState(df) ==
  \/ Len(df.rows) = 0
  \/ /\ FirstPresent(df, possible_state_cols) # 0
     /\ \A k \in Index(df) :
          Cell(df, k, possible_state_cols[FirstPresent(df, possible_state_cols)])
            = ny_state_code

\* C24 as stated: every row that contributes to a summary table has the
\* fixed state code "NY" as its state, whether or not the input table has a
\* state column (here for the provider-service shape: the rows of the
\* population the summary tables are computed of).
C24_Original ==
  (BroadApplied /\ SomeSummaryHasRows(output.analysis)) =>
     AllOfTheState(output.community_care_providers)

\* the state-level rows have the two columns the broadened match reads
SchemaComplete(ny_providers) ==
  /\ HasCol(ny_providers, "Rndrng_Prvdr_City")
  /\ HasCol(ny_providers, "Rndrng_Prvdr_Type")

\* every entry of the list sub is an entry of the list full
SubList(sub, full) ==
  \A i \in 1..Len(sub) : \E j \in 1..Len(full) : sub[i] = full[j]

\* C25: for a state-level table with the columns Rndrng_Prvdr_City and
\* Rndrng_Prvdr_Type, when the strict match yields zero rows the broadened
\* match yields zero rows too, so the population is empty; the cities and
\* specialties of the broadened match are among those of the strict
\* city-and-specialty rule.
C25_BroadenedFindsNothingNew ==
  /\ SubList(broad_upstate_cities, upstate_cities)
  /\ SubList(broad_common_specialties, common_specialties)
  /\ (BroadApplied /\ SchemaComplete(output.ny_providers)
        /\ Len(output.strict.rows) = 0) =>
        /\ Len(broader_match(output.ny_providers).rows) = 0
        /\ Len(output.community_care_providers.rows) = 0

\* state-level rows in a fallback city, one of them of a specialty of neither
\* list, none matched by the strict rules and none by the broadened match
C25_Witness ==
  /\ BroadApplied
  /\ SchemaComplete(output.ny_providers)
  /\ Len(output.ny_providers.rows) = 2
  /\ \A k \in Index(output.ny_providers) : InFallbackCity(output.ny_providers, k)
  /\ \E k \in Index(output.ny_providers) :
       Cell(output.ny_providers, k, "Rndrng_Prvdr_Type") = T_Derma
  /\ Len(output.strict.rows) = 0
  /\ Len(output.community_care_providers.rows) = 0

---------------------------------------------------------------------------
(* The region filter applied to its own result, under SpecRegion *)

\* rows is rows of df in the order of df: df.rows with some rows left out
RECURSIVE IsSubSeq(_, _)
IsSubSeq(rows, of) ==
  IF rows = <<>> THEN TRUE
  ELSE IF of = <<>> THEN FALSE
  ELSE IF Head(rows) = Head(of) THEN IsSubSeq(Tail(rows), Tail(of))
  ELSE IsSubSeq(rows, Tail(of))

\* C26: filter_upstate_ny_providers applied to its own result returns that
\* result, rows and columns; the rows it returns are rows of the input, and
\* every one of them has the fixed state code in the state column the filter
\* resolves.
C26_IdempotentWithinTheState ==
  RegionApplied =>
     /\ ~output.raised
     /\ filter_upstate_ny_providers(output.df) = output
     /\ IsSubSeq(output.df.rows, input[1].rows)
     /\ Len(output.df.rows) > 0 =>
          /\ HasStateCol(input[1])
          /\ StateLevelRows(output.df) = output.df.rows
          /\ IsSubSeq(output.df.rows, StateLevelRows(input[1]))

\* a table with a row of the state and a row of another state, no county of
\* which is listed: the filter fell back to the state-level row, and applied
\* to that row it falls back again
C26_Witness ==
  /\ RegionApplied
  /\ HasStateCol(input[1])
  /\ HasCountyCol(input[1])
  /\ Len(input[1].rows) = 2
  /\ Len(StateLevelRows(input[1])) = 1
  /\ CountyMatchingRows(input[1]) = <<>>
  /\ Len(output.df.rows) = 1
  /\ filter_upstate_ny_providers(output.df) = output

---------------------------------------------------------------------------
(* The population match on the parts of a table, under SpecMatch *)

\* the table of the rows of df from position a to position b
Part(df, a, b) == [cols |-> df.cols, rows |-> SubSeq(df.rows, a, b)]

\* the rows the match selects of df
Matched(df) == find_community_care_providers(df).df.rows

\* C27: the population match is row-local.  For every cut of the input into
\* a table A of its first rows and a table B of the others, the match of the
\* input is the match of A followed by the match of B; whether a row is in
\* the result is decided by the table of that row alone; the result is the
\* input with rows left out, in input order; and the match of the result is
\* the result.
C27_RowLocal ==
  MatchApplied =>
     /\ ~output.raised
     /\ \A i \in 0..Len(input[1].rows) :
          output.df.rows = Matched(Part(input[1], 1, i))
                             \o Matched(Part(input[1], i + 1, Len(input[1].rows)))
     /\ output.df.rows =
          RowsAt(input[1], {k \in Index(input[1]) : Matched(Part(input[1], k, k)) # <<>>}, 1)
     /\ output.df.cols = input[1].cols
     /\ IsSubSeq(output.df.rows, input[1].rows)
     /\ find_community_care_providers(output.df) = output

\* a table of three rows: one in a listed city with a listed specialty, one
\* of a listed specialty in another city, one in a listed city with another
\* specialty; the first alone is matched, in the whole table and in each part
C27_Witness ==
  /\ MatchApplied
  /\ input[1].cols = <<"Rndrng_Prvdr_Org_Name", "Rndrng_Prvdr_City", "Rndrng_Prvdr_Type">>
  /\ Len(input[1].rows) = 3
  /\ \E a, b, c \in Index(input[1]) :
       /\ input[1].rows[a] = <<T_Acme, T_Albany, T_Cardio>>
       /\ input[1].rows[b] = <<T_Acme, T_Buffalo, T_Cardio>>
       /\ input[1].rows[c] = <<T_Acme, T_Albany, T_Derma>>
  /\ output.df.rows = << <<T_Acme, T_Albany, T_Cardio>> >>

---------------------------------------------------------------------------
(* The columns of the standardized table, under SpecStd *)

\* the aliases of field f
AliasesOf(f) == {column_mappings[f].aliases[a] : a \in 1..Len(column_mappings[f].aliases)}

\* no column name is an alias of two fields, and no two fields have the same
\* canonical name
MappingsDisjoint ==
  \A f, g \in Fields :
     f # g => /\ AliasesOf(f) \cap AliasesOf(g) = {}
              /\ column_mappings[f].std # column_mappings[g].std

\* C28: in the standardized table every canonical column name occurs at most
\* once, and the column of a field holds the data of exactly one source
\* column, which backs no other field, whatever aliases are present in the
\* input.
C28_OneSourcePerCanonical ==
  /\ MappingsDisjoint
  /\ StdApplied =>
       /\ ~output.raised
       /\ \A name \in CanonicalNames :
            Cardinality(ColumnPositions(output.df, name)) <= 1
       /\ \A f, g \in FieldsPresent(input[1]) :
            f # g => FirstAlias(input[1], f) # FirstAlias(input[1], g)
       /\ \A f \in FieldsPresent(input[1]) :
            \A i \in ColumnPositions(output.df, column_mappings[f].std) :
               \A k \in Index(input[1]) :
                  output.df.rows[k][i] = Cell(input[1], k, FirstAlias(input[1], f))

\* a table with rows and three aliases of total_services: the standardized
\* table has the one column total_services
C28_Witness ==
  /\ StdApplied
  /\ Len(input[1].rows) > 0
  /\ Cardinality(AliasesOf(11) \cap {input[1].cols[i] : i \in 1..Len(input[1].cols)}) = 3
  /\ column_mappings[11].std = "total_services"
  /\ output.df.cols = <<"total_services">>

---------------------------------------------------------------------------
(* The volume of the service-volume table, under SpecVolume *)

\* the sum of column col over all rows of df
Total(df, col) == SumOver(df, col, Index(df))

\* C29 as stated: for a standardized table with a last-name column, the sum
\* of Total Services over the rows of the service-volume table equals the sum
\* of total_services over the rows of the input, rows without a first name or
\* a specialty included.
C29_Original ==
  (VolumeApplied /\ HasCol(input, "provider_last_name")
     /\ HasCol(input, "total_services") /\ Len(input.rows) > 0) =>
     /\ ~output.raised
     /\ HasCol(output.df, "Total Services")
     /\ Total(output.df, "Total Services") = Total(input, "total_services")

---------------------------------------------------------------------------
(* The result of CMSVisualizer.create_report, under SpecViz *)

\* C30: create_report returns True (it did not raise inside) exactly when it
\* wrote cms_analysis.html in that call, and the file then holds the document
\* of this run; when it returns False, for a table that could not be loaded
\* or a chart that could not be built or serialized, every file is as it was
\* before the call, the earlier report included.
C30_TrueIffWritten ==
  [][ op' = "create_report" =>
        /\ ~output'.raised <=> output'.written
        /\ ~output'.raised =>
             /\ Exists(files', report_path)
             /\ ThisRunsDocument(files'[report_path], results, output'.figures)
        /\ output'.raised => files' = files ]_vars

\* CMSDataVisualizer had written a report of a results directory whose
\* top_services.csv has no rows; create_report on the same directory failed
\* in create_services_chart, returned False and left that report as it was
C30_Witness ==
  /\ op = "create_report"
  /\ output.raised
  /\ ~output.written
  /\ input.failing = {}
  /\ input.draws_empty
  /\ output.failed = {1}
  /\ Len(output.previous) > 0
  /\ Report(files) = output.previous

=============================================================================
